---- MODULE Spec2Model ----
(***************************************************************************)
(* A model of the atomic_http request engine: the incremental socket       *)
(* reader (heap and arena flavours), the message framer, and the           *)
(* CRLFCRLF scanners.  Byte strings are sequences of integers (the byte    *)
(* values); text is a sequence of code points.  Offsets follow the source: *)
(* they are 0-based, and At/Slice translate them to TLA+ sequences.        *)
(***************************************************************************)
EXTENDS Integers, Sequences, FiniteSets, TLC

VARIABLES
    flavor,              \* "heap" (get_bytes_from_reader) or "arena" (get_bytes_arena_direct)
    stream,              \* what the peer sends: [hdr, body, extra, cl]
    sock_pos,            \* number of bytes of the stream the socket has handed out
    read_max_retry,      \* options.read_max_retry
    read_buffer_size,    \* options.read_buffer_size
    pc,                  \* position of the reader task
    header_buffer,       \* header_buffer / temp_header_buf
    header_end_pos,      \* Option<usize>
    content_length,      \* Option<usize>
    retry_count,
    header_end,
    total_expected_size, \* total_expected_size / total_size
    final_buffer,        \* final_buffer[..total_read] / arena_data[..total_read]
    total_read,
    result,              \* "none", "ok", "err_nodata", "err_io"
    attempts,            \* history: number of stream.read calls made while every read
                         \* timed out (0 once a read had another outcome)
    would_blocks,        \* history: number of reads answered WouldBlock in the header phase
    only_timeouts,       \* history: every read so far timed out
    only_data,           \* history: every read so far returned n > 0 bytes
    cut_in_marker,       \* history: a read ended inside the first CRLFCRLF
    cut_in_body,         \* history: a read ended inside the body
    body_stop,           \* history: why the body loop ended: "none", "full", "retries", "closed"
    build,               \* the scanner the build and the CPU select: "scalar" (feature simd
                         \* off), "avx2", "sse2", "fallback" (simd on, not x86_64); "none"
                         \* until a scan is made
    scan_data,           \* the input of find_header_end_simd
    scan_result,         \* its result: an offset, NONE, or PANIC
    scan_pc,             \* "ready", "done", or "idle" when no scan is under way
    request,             \* what parse_request frames from the reader's buffer
    frame_data,          \* the buffer handed to both framers
    heap_request,        \* get_request(frame_data)
    arena_request,       \* parse_http_request_arena over the same bytes
    heap_decoded,        \* what get_text and get_json returned for heap_request
    arena_decoded,       \* what get_text_arena and get_json_arena returned for
                         \* arena_request
    pool_config,         \* ConnectionPool::config
    pools,               \* ConnectionPool::pools: host -> queue of PooledConnection
    now,                 \* Instant::now()
    task,                \* the callers of the pool: their position, addr and stream
    cleanup_pc,          \* position of the cleanup task
    cleanup_remaining,   \* the keys pools.iter() has yet to yield
    cleanup_addr,        \* the key of the entry the sweep is at
    total_connections,
    active_connections,  \* an AtomicU64: a value below 0 here stands for 2^64 plus it
    reused_connections,
    connection_hits,
    connection_misses,
    get_calls,           \* history: number of get_connection calls made
    opened_at,           \* history: when each stream was opened by TcpStream::connect
    last_hit,            \* history: of the connection the last pool hit returned, the idle
                         \* time, the age since connect, and how many expired entries
                         \* were popped before it
    last_return,         \* history: how the last return_connection ended: "none",
                         \* "discarded", "full", "pushed"
    sweep_clean,         \* history: what the last finished sweep left behind
    cache_config,        \* the four limits of ZeroCopyCache
    memory_cache,        \* ZeroCopyCache::memory_cache: path -> CachedFileData
    system_time,         \* SystemTime::now()
    cache_pc,            \* "ready"; "spinning" when a call is in a loop it never leaves;
                         \* "off" when no cache is under way
    access_log,          \* history: the paths load_from_memory_cache hit or inserted
    last_load,           \* history: of the last load_file, the path, the outcome, the
                         \* cache it found and the paths it evicted, in order
    loader,              \* the tasks inside load_from_memory_cache after a miss:
                         \* position, path, and the cache as their
                         \* ensure_cache_capacity left it
    last_sweep,          \* history: of the last cleanup_expired, the cache it found and
                         \* the time it read
    global_cell,         \* GLOBAL_CACHE and GLOBAL_CONNECTION_POOL: the instance each
                         \* OnceLock holds, or Unset
    created,             \* history: how many instances of each kind were constructed
    gtask,               \* the callers of init_global and global: position, kind, and
                         \* the instance init_global has constructed
    observed,            \* history: the instances global() returned, by kind
    set_refused,         \* history: the kinds for which OnceLock::set returned Err
    features,            \* the cargo features of the build that bear on responses
    response,            \* the Response<Writer> or Response<ArenaWriter> that
                         \* parse_request returned, as the handler has left it
    file,                \* the file the handler's response_file named
    writes,              \* history: the buffers handed to the socket, in order
    wire,                \* the units the socket sent to the peer, each with the serial
                         \* number it had among the units handed over
    split_data,          \* the slice split_bytes and split_bytes_arena are called on
    delimiter,           \* the delimiter they are called with
    chunks,              \* what split_bytes returned
    chunks_arena,        \* what split_bytes_arena returned
    emit_pc              \* "open" until responser or responser_arena has run, then
                         \* "sent" when it returned Ok and "failed" when it returned Err

readerVars == <<flavor, stream, sock_pos, read_max_retry, read_buffer_size, pc,
                header_buffer, header_end_pos, content_length, retry_count,
                header_end, total_expected_size, final_buffer, total_read, result,
                attempts, would_blocks, only_timeouts, only_data, cut_in_marker,
                cut_in_body, body_stop>>

scanVars == <<scan_data, scan_result, scan_pc>>

frameVars == <<frame_data, heap_request, arena_request, heap_decoded, arena_decoded>>

poolVars == <<pool_config, pools, now, task, cleanup_pc, cleanup_remaining, cleanup_addr,
              total_connections, active_connections, reused_connections,
              connection_hits, connection_misses, get_calls, opened_at, last_hit,
              last_return, sweep_clean>>

cacheVars == <<cache_config, memory_cache, system_time, cache_pc, access_log, last_load,
               last_sweep, loader>>

globalVars == <<global_cell, created, gtask, observed, set_refused>>

emitVars == <<features, response, file, writes, wire, emit_pc>>

splitVars == <<split_data, delimiter, chunks, chunks_arena>>

storeVars == <<poolVars, cacheVars, globalVars, emitVars, splitVars>>

vars == <<readerVars, build, scanVars, request, frameVars, storeVars>>

-----------------------------------------------------------------------------
(* Bounds of the model *)

MaxRetry == 2
MaxWouldBlock == 1
MaxScanLen == 40

-----------------------------------------------------------------------------
(* Bytes *)

CR == 13
LF == 10
SP == 32
TAB == 9
NONE == -1
PANIC == -2   \* an out-of-range slice index: the thread panics

Min(a, b) == IF a < b THEN a ELSE b
Max(a, b) == IF a > b THEN a ELSE b

\* data[i] and data[a..b] with the source's 0-based offsets
At(data, i) == data[i + 1]
Slice(data, a, b) == SubSeq(data, a + 1, b)

\* u8::to_ascii_lowercase
to_ascii_lowercase(b) == IF b >= 65 /\ b <= 90 THEN b + 32 ELSE b

\* saturating_sub on usize
saturating_sub(a, b) == IF a >= b THEN a - b ELSE 0

IsMarkerAt(data, i) ==
    /\ i + 4 <= Len(data)
    /\ At(data, i) = CR
    /\ At(data, i + 1) = LF
    /\ At(data, i + 2) = CR
    /\ At(data, i + 3) = LF

-----------------------------------------------------------------------------
(* find_header_end_optimized: the scan with the skip-ahead to the next CR *)

RECURSIVE SkipToCR(_, _)
SkipToCR(data, i) ==
    IF i < Len(data) /\ At(data, i) # CR THEN SkipToCR(data, i + 1) ELSE i

\* the condition of the while loop: i <= data.len() - 4
InScanRange_Mut(data, i) == i < Len(data) - 4
InScanRange(data, i) == i <= Len(data) - 4

RECURSIVE find_header_end_loop(_, _)
find_header_end_loop(data, i) ==
    IF ~InScanRange(data, i) THEN NONE
    ELSE IF IsMarkerAt(data, i) THEN i
    ELSE IF At(data, i) # CR THEN find_header_end_loop(data, SkipToCR(data, i))
    ELSE find_header_end_loop(data, i + 1)

find_header_end_optimized(data) ==
    IF Len(data) < 4 THEN NONE ELSE find_header_end_loop(data, 0)

\* the find_header_end_optimized of traits/mod.rs:
\* data.windows(4).position(|window| window == b"\r\n\r\n")
RECURSIVE windows_position(_, _)
windows_position(data, i) ==
    IF i + 4 > Len(data) THEN NONE
    ELSE IF Slice(data, i, i + 4) = <<CR, LF, CR, LF>> THEN i
    ELSE windows_position(data, i + 1)

find_header_end_optimized_mod(data) == windows_position(data, 0)

-----------------------------------------------------------------------------
(* The scanners of bytes.rs behind find_header_end_simd *)

SSE2_WIDTH == 16
AVX2_WIDTH == 32

MinOf(S) == CHOOSE x \in S : \A y \in S : x <= y

\* Option::map(|pos| pos + i), a panic passing through
Shift(r, i) == IF r = NONE \/ r = PANIC THEN r ELSE r + i

\* &data[i..i + 4] == pattern; the slice panics when i + 4 > data.len()
RECURSIVE find_header_end_scalar_loop(_, _, _)
find_header_end_scalar_loop(data, i, last) ==
    IF i > last THEN NONE
    ELSE IF i + 4 > Len(data) THEN PANIC
    ELSE IF IsMarkerAt(data, i) THEN i
    ELSE find_header_end_scalar_loop(data, i + 1, last)

find_header_end_scalar(data) ==
    find_header_end_scalar_loop(data, 0, saturating_sub(Len(data), 4))

\* the candidates of one vector load at offset i: the CR bytes, lowest first
FirstMarkerIn(data, i, width) ==
    LET hits == {pos \in i..(i + width - 1) : At(data, pos) = CR /\ IsMarkerAt(data, pos)}
    IN  IF hits = {} THEN NONE ELSE MinOf(hits)

RECURSIVE find_header_end_sse2_loop(_, _)
find_header_end_sse2_loop(data, i) ==
    IF i < Len(data) - (SSE2_WIDTH - 1)
    THEN LET hit == FirstMarkerIn(data, i, SSE2_WIDTH)
         IN  IF hit # NONE THEN hit ELSE find_header_end_sse2_loop(data, i + SSE2_WIDTH)
    ELSE Shift(find_header_end_scalar(Slice(data, i, Len(data))), i)

find_header_end_sse2(data) ==
    IF Len(data) < SSE2_WIDTH THEN find_header_end_scalar(data)
    ELSE find_header_end_sse2_loop(data, 0)

RECURSIVE find_header_end_avx2_loop(_, _)
find_header_end_avx2_loop(data, i) ==
    IF i < Len(data) - (AVX2_WIDTH - 1)
    THEN LET hit == FirstMarkerIn(data, i, AVX2_WIDTH)
         IN  IF hit # NONE THEN hit ELSE find_header_end_avx2_loop(data, i + AVX2_WIDTH)
    ELSE Shift(find_header_end_sse2(Slice(data, i, Len(data))), i)

find_header_end_avx2(data) ==
    IF Len(data) < AVX2_WIDTH THEN find_header_end_sse2(data)
    ELSE find_header_end_avx2_loop(data, 0)

\* is_x86_feature_detected!("avx2") / ("sse2"), else the scalar fallback
find_header_end_simd(data, b) ==
    IF b = "avx2" THEN find_header_end_avx2(data)
    ELSE IF b = "sse2" THEN find_header_end_sse2(data)
    ELSE find_header_end_scalar(data)

\* a plain left-to-right scan: the first offset at which CRLFCRLF stands
PlainScan(data) ==
    LET hits == {i \in 0..Len(data) : IsMarkerAt(data, i)}
    IN  IF hits = {} THEN NONE ELSE MinOf(hits)

-----------------------------------------------------------------------------
(* extract_content_length_simple *)

ContentLengthPattern ==
    <<99,111,110,116,101,110,116,45,108,101,110,103,116,104,58>>  \* "content-length:"

MatchesAt(haystack, needle, i) ==
    \A j \in 0..(Len(needle) - 1) :
        to_ascii_lowercase(At(haystack, i + j)) = to_ascii_lowercase(At(needle, j))

find_pattern_case_insensitive(haystack, needle) ==
    IF Len(needle) > Len(haystack) THEN NONE
    ELSE LET hits == {i \in 0..(Len(haystack) - Len(needle)) : MatchesAt(haystack, needle, i)}
         IN  IF hits = {} THEN NONE ELSE CHOOSE i \in hits : \A k \in hits : i <= k

RECURSIVE SkipBlanks(_, _)
SkipBlanks(headers, i) ==
    IF i < Len(headers) /\ (At(headers, i) = SP \/ At(headers, i) = TAB)
    THEN SkipBlanks(headers, i + 1) ELSE i

RECURSIVE SkipDigits(_, _)
SkipDigits(headers, i) ==
    IF i < Len(headers) /\ At(headers, i) >= 48 /\ At(headers, i) <= 57
    THEN SkipDigits(headers, i + 1) ELSE i

\* usize::MAX as decimal digits (64-bit target)
UsizeMaxDigits == <<49,56,52,52,54,55,52,52,48,55,51,55,48,57,53,53,49,54,49,53>>

RECURSIVE StripZeros(_)
StripZeros(digits) ==
    IF Len(digits) > 1 /\ Head(digits) = 48 THEN StripZeros(Tail(digits)) ELSE digits

RECURSIVE DigitsLeq(_, _)
DigitsLeq(a, b) ==
    IF a = <<>> THEN TRUE
    ELSE IF Head(a) # Head(b) THEN Head(a) < Head(b)
    ELSE DigitsLeq(Tail(a), Tail(b))

FitsUsize(digits) ==
    LET d == StripZeros(digits)
    IN  \/ Len(d) < Len(UsizeMaxDigits)
        \/ Len(d) = Len(UsizeMaxDigits) /\ DigitsLeq(d, UsizeMaxDigits)

RECURSIVE DigitsValue(_, _)
DigitsValue(digits, acc) ==
    IF digits = <<>> THEN acc ELSE DigitsValue(Tail(digits), acc * 10 + (Head(digits) - 48))

\* A usize at or above 2^63 is written as its value minus 2^64, so that the
\* wrapping sum of two usize values is the sum of the integers written for
\* them.  The one such value the inputs hold is usize::MAX - 2.
NearMaxDigits == <<49,56,52,52,54,55,52,52,48,55,51,55,48,57,53,53,49,54,49,51>>
NearMax == -3

\* a + b does not fit a usize
Overflows(a, b) == (a < 0 /\ b < 0) \/ (a < 0 /\ b >= 0 - a) \/ (b < 0 /\ a >= 0 - b)

\* str::parse::<usize> on a non-empty string of ASCII digits: Err on overflow
ParseDigits(digits) ==
    IF ~FitsUsize(digits) THEN NONE
    ELSE IF StripZeros(digits) = NearMaxDigits THEN NearMax
    ELSE DigitsValue(digits, 0)

extract_content_length_simple(headers) ==
    LET start_pos == find_pattern_case_insensitive(headers, ContentLengthPattern)
    IN  IF start_pos = NONE THEN NONE
        ELSE LET value_start == start_pos + Len(ContentLengthPattern)
                 number_start == SkipBlanks(headers, value_start)
                 value_end == SkipDigits(headers, number_start)
             IN  IF value_end > number_start
                 THEN ParseDigits(Slice(headers, number_start, value_end))
                 ELSE NONE

-----------------------------------------------------------------------------
(* Text.  A str is a sequence of code points.  The inputs drawn here are    *)
(* ASCII bytes and bytes that occur in no UTF-8 sequence (such as 0xFF), so *)
(* the decoders below need no multi-byte sequences.                         *)

REPLACEMENT == 65533   \* U+FFFD

\* std::str::from_utf8(..).is_ok()
Utf8Valid(bytes) == \A i \in 1..Len(bytes) : bytes[i] < 128

\* String::from_utf8_lossy
from_utf8_lossy(bytes) ==
    [i \in 1..Len(bytes) |-> IF bytes[i] < 128 THEN bytes[i] ELSE REPLACEMENT]

\* char::is_whitespace
is_whitespace(c) ==
    \/ c \in 9..13
    \/ c \in {32, 133, 160, 5760, 8232, 8233, 8239, 8287, 12288}
    \/ c \in 8192..8202

\* str::to_lowercase, on ASCII and U+FFFD
to_lowercase(str) == [i \in 1..Len(str) |-> to_ascii_lowercase(str[i])]

StartsWithAt(str, pat, i) ==
    /\ i + Len(pat) <= Len(str)
    /\ \A j \in 1..Len(pat) : str[i + j] = pat[j]

\* str::find: the offset of the first match, or NONE
find(str, pat) ==
    LET hits == {i \in 0..Len(str) : StartsWithAt(str, pat, i)}
    IN  IF hits = {} THEN NONE ELSE MinOf(hits)

\* str::split(pat).collect(): the pieces between the matches, left to right
RECURSIVE split(_, _)
split(str, pat) ==
    LET i == find(str, pat)
    IN  IF i = NONE THEN <<str>>
        ELSE <<Slice(str, 0, i)>> \o split(Slice(str, i + Len(pat), Len(str)), pat)

RECURSIVE trim_start(_)
trim_start(str) ==
    IF str # <<>> /\ is_whitespace(Head(str)) THEN trim_start(Tail(str)) ELSE str

RECURSIVE trim_end(_)
trim_end(str) ==
    IF str # <<>> /\ is_whitespace(str[Len(str)])
    THEN trim_end(SubSeq(str, 1, Len(str) - 1)) ELSE str

\* str::trim
trim(str) == trim_end(trim_start(str))

CRLF == <<CR, LF>>
ColonSpace == <<58, SP>>
Space == <<SP>>

-----------------------------------------------------------------------------
(* The http crate, as the framers use it *)

\* the bytes of a token (RFC 7230): what Method::from_bytes and
\* HeaderName::from_bytes accept
IsTokenChar(c) ==
    \/ c \in 48..57 \/ c \in 65..90 \/ c \in 97..122
    \/ c \in {33, 35, 36, 37, 38, 39, 42, 43, 45, 46, 94, 95, 96, 124, 126}

\* Option and Result over text: Some(x) / Ok(x) is <<x>>, None / Err is <<>>
Some(x) == <<x>>
Nothing == <<>>
unwrap_or(opt, default) == IF opt # Nothing THEN opt[1] ELSE default

\* str::parse::<http::Method>()
ParseMethod(tok) ==
    IF tok # <<>> /\ \A i \in 1..Len(tok) : IsTokenChar(tok[i]) THEN Some(tok) ELSE Nothing

IsPathChar(c) ==
    \/ c \in {33, 34, 61, 123, 124, 125, 126}
    \/ c \in 36..59 \/ c \in 64..95 \/ c \in 97..122

IsQueryChar(c) == c \in {33, 61} \/ c \in 36..59 \/ c \in 63..126

\* str::parse::<http::Uri>() on "*" and on the origin form "/path?query":
\* tokens of another form are not drawn.
ParseUri(tok) ==
    IF tok = <<42>> THEN Some(tok)
    ELSE IF tok = <<>> \/ Head(tok) # 47 THEN Nothing
    ELSE LET hash == find(tok, <<35>>)
             kept == IF hash = NONE THEN tok ELSE Slice(tok, 0, hash)
             q == find(kept, <<63>>)
             path == IF q = NONE THEN kept ELSE Slice(kept, 0, q)
             query == IF q = NONE THEN <<>> ELSE Slice(kept, q + 1, Len(kept))
         IN  IF /\ \A i \in 1..Len(path) : IsPathChar(path[i])
                /\ \A i \in 1..Len(query) : IsQueryChar(query[i])
             THEN Some(kept) ELSE Nothing

HTTP_09_STR == <<72,84,84,80,47,48,46,57>>   \* "HTTP/0.9"
HTTP_10_STR == <<72,84,84,80,47,49,46,48>>   \* "HTTP/1.0"
HTTP_11_STR == <<72,84,84,80,47,49,46,49>>   \* "HTTP/1.1"
HTTP_20_STR == <<72,84,84,80,47,50,46,48>>   \* "HTTP/2.0"
HTTP_30_STR == <<72,84,84,80,47,51,46,48>>   \* "HTTP/3.0"

\* the match on the version string
ParseVersion(tok) ==
    IF tok = HTTP_09_STR THEN "HTTP_09"
    ELSE IF tok = HTTP_10_STR THEN "HTTP_10"
    ELSE IF tok = HTTP_11_STR THEN "HTTP_11"
    ELSE IF tok = HTTP_20_STR THEN "HTTP_2"
    ELSE IF tok = HTTP_30_STR THEN "HTTP_3"
    ELSE "HTTP_11"

\* HeaderName::from_bytes(..).is_ok()
HeaderNameValid(name) == name # <<>> /\ \A i \in 1..Len(name) : IsTokenChar(name[i])

\* HeaderValue::try_from(String).is_ok(): no control byte but TAB
HeaderValueValid(value) ==
    \A i \in 1..Len(value) : (value[i] >= 32 /\ value[i] # 127) \/ value[i] = TAB

\* what request::Builder does with the headers pushed into it
BuilderAccepts(headers) ==
    \A i \in 1..Len(headers) :
        HeaderNameValid(headers[i].name) /\ HeaderValueValid(headers[i].value)

GET == <<71, 69, 84>>
Slash == <<47>>

RequestOk(method, uri, version, headers, body) ==
    [ok |-> TRUE, err |-> "", method |-> method, uri |-> uri, version |-> version,
     headers |-> headers, body |-> body]

RequestErr(why) ==
    [ok |-> FALSE, err |-> why, method |-> <<>>, uri |-> <<>>, version |-> "",
     headers |-> <<>>, body |-> <<>>]

NoRequest == RequestErr("none")

-----------------------------------------------------------------------------
(* split_header_body, heap flavour *)

\* the loop of the build without the simd feature: the first offset at which
\* self[i..].starts_with(b"\r\n\r\n")
RECURSIVE first_marker_from(_, _)
first_marker_from(data, i) ==
    IF i >= Len(data) THEN NONE
    ELSE IF IsMarkerAt(data, i) THEN i
    ELSE first_marker_from(data, i + 1)

split_header_body(data, b) ==
    LET pos == IF b = "scalar" THEN first_marker_from(data, 0)
               ELSE find_header_end_simd(data, b)
    IN  IF pos = PANIC THEN [panic |-> TRUE, header |-> <<>>, body |-> <<>>]
        ELSE IF pos = NONE THEN [panic |-> FALSE, header |-> data, body |-> <<>>]
        ELSE [panic |-> FALSE, header |-> Slice(data, 0, pos),
              body |-> Slice(data, pos + 4, Len(data))]

-----------------------------------------------------------------------------
(* get_request: the heap framer *)

\* the n-th item of an iterator over pieces
Nth(pieces, n) == IF n <= Len(pieces) THEN Some(pieces[n]) ELSE Nothing

\* a line after the first, heap flavour: line.trim().split(": "), the first
\* two pieces
heap_header_line(line) ==
    LET size_split == split(trim(line), ColonSpace)
        key == Nth(size_split, 1)
        value == Nth(size_split, 2)
    IN  IF key # Nothing /\ value # Nothing
        THEN <<[name |-> to_lowercase(key[1]), value |-> value[1]]>>
        ELSE <<>>

\* the headers pushed by the lines from index `from` on; empty lines are skipped
RECURSIVE heap_headers(_, _)
heap_headers(lines, from) ==
    IF from > Len(lines) THEN <<>>
    ELSE (IF lines[from] = <<>> THEN <<>> ELSE heap_header_line(lines[from]))
             \o heap_headers(lines, from + 1)

\* method_option, uri_option and version_option after line 0
request_line(line) ==
    IF line = <<>> THEN [method |-> Nothing, uri |-> Nothing, version |-> Nothing]
    ELSE LET parts == split(line, Space)
         IN  [method |-> ParseMethod(parts[1]),
              uri |-> IF Len(parts) >= 2 THEN ParseUri(parts[2]) ELSE Nothing,
              version |-> IF Len(parts) >= 3 THEN Some(ParseVersion(parts[3])) ELSE Nothing]

get_request(bytes, b) ==
    LET parts == split_header_body(bytes, b)
        headers_string == from_utf8_lossy(parts.header)
        lines == IF headers_string = <<>> THEN <<>> ELSE split(headers_string, CRLF)
        first == IF lines = <<>> THEN request_line(<<>>) ELSE request_line(lines[1])
        headers == heap_headers(lines, 2)
    IN  IF parts.panic THEN RequestErr("panic")
        ELSE IF ~BuilderAccepts(headers) THEN RequestErr("http")
        ELSE RequestOk(unwrap_or(first.method, GET),
                       unwrap_or(first.uri, Slash),
                       unwrap_or(first.version, "HTTP_11"),
                       headers, parts.body)

-----------------------------------------------------------------------------
(* parse_http_request_arena: the arena framer over ArenaBody *)

\* ArenaBody::get_headers: from_raw_parts(data_ptr, header_end)
get_headers(data, he) == Slice(data, 0, he)

\* ArenaBody::get_body_bytes: from_raw_parts(data_ptr + body_start, total_len - body_start)
get_body_bytes(data, body_start) == Slice(data, body_start, Len(data))

\* a line after the first, arena flavour: the split at the first ": "
arena_header_line(line) ==
    LET colon_pos == find(line, ColonSpace)
    IN  IF colon_pos = NONE THEN <<>>
        ELSE <<[name |-> to_lowercase(Slice(line, 0, colon_pos)),
                value |-> Slice(line, colon_pos + 2, Len(line))]>>

RECURSIVE arena_headers(_, _)
arena_headers(lines, from) ==
    IF from > Len(lines) THEN <<>>
    ELSE (IF lines[from] = <<>> THEN <<>> ELSE arena_header_line(lines[from]))
             \o arena_headers(lines, from + 1)

parse_http_request_arena(data, he, body_start) ==
    LET headers_bytes == get_headers(data, he)
        headers_str == headers_bytes
        lines == IF headers_str = <<>> THEN <<>> ELSE split(headers_str, CRLF)
        first == IF lines = <<>> THEN request_line(<<>>) ELSE request_line(lines[1])
        headers == arena_headers(lines, 2)
    IN  IF ~Utf8Valid(headers_bytes) THEN RequestErr("utf8")
        ELSE IF ~BuilderAccepts(headers) THEN RequestErr("http")
        ELSE RequestOk(unwrap_or(first.method, GET),
                       unwrap_or(first.uri, Slash),
                       unwrap_or(first.version, "HTTP_11"),
                       headers, get_body_bytes(data, body_start))

-----------------------------------------------------------------------------
(* Decoding a body: get_text and get_json of Request<Body>, get_text_arena *)
(* of Request<ArenaBody> and ArenaBody::parse_json_zero_copy.  The JSON     *)
(* documents of the model are string literals: a quote, characters that     *)
(* need no escape, a quote.                                                 *)

\* serde_json::from_str(text).is_ok(), for a text that is a string literal or
\* no JSON at all
IsJson(text) ==
    /\ Len(text) >= 2
    /\ text[1] = 34                \* '"'
    /\ text[Len(text)] = 34
    /\ \A i \in 2..(Len(text) - 1) : text[i] \notin {34, 92} /\ text[i] >= 32

DecodeOk(value) == [ok |-> TRUE, err |-> "", value |-> value]

DecodeErr(why) == [ok |-> FALSE, err |-> why, value |-> <<>>]

NoDecode == [text |-> DecodeErr("none"), json |-> DecodeErr("none")]

\* Body::body after `if self.body().len > 0 { body = from_utf8_lossy(bytes) }`
heap_body_string(req) == IF Len(req.body) > 0 THEN from_utf8_lossy(req.body) ELSE <<>>

\* RequestUtils::get_text
get_text(req) == DecodeOk(heap_body_string(req))

\* RequestUtils::get_json
get_json(req) ==
    LET body == heap_body_string(req)
    IN  IF body = <<>> THEN DecodeErr("Empty body")
        ELSE IF IsJson(body) THEN DecodeOk(body)
        ELSE DecodeErr("json")

\* ArenaBody::get_body_str
get_body_str(req) ==
    IF Utf8Valid(req.body) THEN DecodeOk(req.body) ELSE DecodeErr("utf8")

\* RequestUtilsArena::get_text_arena
get_text_arena(req) == get_body_str(req)

\* ArenaBody::parse_json_zero_copy
parse_json_zero_copy(req) ==
    LET body_str == get_body_str(req)
    IN  IF ~body_str.ok THEN body_str
        ELSE IF IsJson(body_str.value) THEN DecodeOk(body_str.value)
        ELSE DecodeErr("json")

-----------------------------------------------------------------------------
(* What the peer sends.  hdr is the header block with its CRLFCRLF, body   *)
(* the body bytes the peer sends, extra whatever it sends after them, and  *)
(* cl the Content-Length it declared (NONE when it declared none).         *)

GetHello ==  \* "GET /hello HTTP/1.1\r\nHost: x\r\n\r\n"
    <<71,69,84,32,47,104,101,108,108,111,32,72,84,84,80,47,49,46,49,13,10,
      72,111,115,116,58,32,120,13,10,13,10>>

PostD5 ==    \* "POST /d HTTP/1.1\r\nContent-Length: 5\r\n\r\n"
    <<80,79,83,84,32,47,100,32,72,84,84,80,47,49,46,49,13,10,
      67,111,110,116,101,110,116,45,76,101,110,103,116,104,58,32,53,13,10,13,10>>

PostD6 ==    \* "POST /d HTTP/1.1\r\nContent-Length: 6\r\n\r\n"
    <<80,79,83,84,32,47,100,32,72,84,84,80,47,49,46,49,13,10,
      67,111,110,116,101,110,116,45,76,101,110,103,116,104,58,32,54,13,10,13,10>>

PostD0 ==    \* "POST /d HTTP/1.1\r\nContent-Length: 0\r\n\r\n"
    <<80,79,83,84,32,47,100,32,72,84,84,80,47,49,46,49,13,10,
      67,111,110,116,101,110,116,45,76,101,110,103,116,104,58,32,48,13,10,13,10>>

PostNearMax ==   \* "POST /d HTTP/1.1\r\nContent-Length: 18446744073709551613\r\n\r\n"
    <<80,79,83,84,32,47,100,32,72,84,84,80,47,49,46,49,13,10,
      67,111,110,116,101,110,116,45,76,101,110,103,116,104,58,32>>
        \o NearMaxDigits \o <<13,10,13,10>>

Hello == <<104,101,108,108,111>>            \* "hello"
BodyWithMarker == <<97,13,10,13,10,98>>     \* "a\r\n\r\nb"
Trailing == <<88,89,90>>                    \* "XYZ"

Streams ==
    { [hdr |-> GetHello, body |-> <<>>,           extra |-> <<>>,     cl |-> NONE],
      [hdr |-> GetHello, body |-> <<>>,           extra |-> Trailing, cl |-> NONE],
      [hdr |-> PostD5,   body |-> Hello,          extra |-> <<>>,     cl |-> 5],
      [hdr |-> PostD5,   body |-> Hello,          extra |-> Trailing, cl |-> 5],
      [hdr |-> PostD6,   body |-> BodyWithMarker, extra |-> <<>>,     cl |-> 6],
      [hdr |-> PostD0,   body |-> <<>>,           extra |-> <<>>,     cl |-> 0] }

\* a peer that declares a Content-Length close to usize::MAX, beside one that
\* declares the length of what it sends
StreamsNearMax ==
    { [hdr |-> PostD5,      body |-> Hello, extra |-> <<>>, cl |-> 5],
      [hdr |-> PostNearMax, body |-> <<>>,  extra |-> <<>>, cl |-> NearMax] }

Sent(st) == st.hdr \o st.body \o st.extra

\* the peer sent one whole message and nothing else
IsCompleteMessage(st) ==
    /\ st.extra = <<>>
    /\ Len(st.body) = (IF st.cl = NONE THEN 0 ELSE st.cl)

ReadBufferSizes == {0, 2, 4096}

-----------------------------------------------------------------------------
(* The reader: get_bytes_from_reader and get_bytes_arena_direct *)

MAX_HEADER_SIZE == 65536
INITIAL_READ_SIZE == 4096
INITIAL_ARENA_SIZE == 8192

buffer_size ==
    Max(IF read_buffer_size = 0
        THEN (IF flavor = "heap" THEN INITIAL_READ_SIZE ELSE INITIAL_ARENA_SIZE)
        ELSE read_buffer_size,
        MAX_HEADER_SIZE)

determine_next_read_size(current_size) ==
    IF current_size <= 512 THEN 1024
    ELSE IF current_size <= 4096 THEN 2048
    ELSE IF current_size <= 16384 THEN 4096
    ELSE 8192

\* the retry test of both read loops
RetryBudgetLeft_Mut(count, max_retry) == count <= max_retry
RetryBudgetLeft(count, max_retry) == count < max_retry

\* where the scan for the marker resumes after an append
search_start_Mut(current_len) == current_len
search_start(current_len) == saturating_sub(current_len, 4 - 1)

HeaderLoopCond ==
    /\ header_end_pos = NONE
    /\ Len(header_buffer) < buffer_size
    /\ RetryBudgetLeft(retry_count, read_max_retry)

\* the size of the slice handed to stream.read in the header loop
HeaderReadCap ==
    IF flavor = "heap" THEN buffer_size
    ELSE determine_next_read_size(Len(header_buffer))

Available == Len(Sent(stream)) - sock_pos

\* the history count of read attempts, kept while every read has timed out
CountAttempt(timed_out) == IF only_timeouts /\ timed_out THEN attempts + 1 ELSE 0

ReaderStartOn(streams) ==
    /\ flavor \in {"heap", "arena"}
    /\ stream \in streams
    /\ read_max_retry \in 0..MaxRetry
    /\ read_buffer_size \in ReadBufferSizes
    /\ sock_pos = 0
    /\ pc = "headers"
    /\ header_buffer = <<>>
    /\ header_end_pos = NONE
    /\ content_length = NONE
    /\ retry_count = 0
    /\ header_end = 0
    /\ total_expected_size = 0
    /\ final_buffer = <<>>
    /\ total_read = 0
    /\ result = "none"
    /\ attempts = 0
    /\ would_blocks = 0
    /\ only_timeouts = TRUE
    /\ only_data = TRUE
    /\ cut_in_marker = FALSE
    /\ cut_in_body = FALSE
    /\ body_stop = "none"

ReaderStart == ReaderStartOn(Streams)

Config == <<flavor, stream, read_max_retry, read_buffer_size>>
Cuts == <<cut_in_marker, cut_in_body>>

\* what the reader's reads leave alone
Outside == <<build, scan_data, scan_result, scan_pc, request, frame_data, heap_request,
             arena_request, heap_decoded, arena_decoded, storeVars>>

\* the history of where reads ended, after a read that ended at offset pos
NoteCut(pos) ==
    /\ cut_in_marker' = (cut_in_marker \/ (pos > Len(stream.hdr) - 4 /\ pos < Len(stream.hdr)))
    /\ cut_in_body' = (cut_in_body \/ (pos > Len(stream.hdr) /\ pos < Len(stream.hdr) + Len(stream.body)))
BodyState == <<header_end, total_expected_size, final_buffer, total_read, body_stop>>

\* Ok(Ok(n)), n > 0, in the header loop
HeaderReadData ==
    /\ pc = "headers" /\ HeaderLoopCond
    /\ \E n \in 1..Min(HeaderReadCap, Available) :
        LET current_len == Len(header_buffer)
            buf == header_buffer \o SubSeq(Sent(stream), sock_pos + 1, sock_pos + n)
            start == search_start(current_len)
            relative_pos == find_header_end_optimized(Slice(buf, start, Len(buf)))
        IN  /\ sock_pos' = sock_pos + n
            /\ NoteCut(sock_pos + n)
            /\ header_buffer' = buf
            /\ IF relative_pos # NONE
               THEN /\ header_end_pos' = start + relative_pos + 4
                    /\ content_length' =
                           extract_content_length_simple(Slice(buf, 0, start + relative_pos + 4))
                    /\ retry_count' = retry_count
                    /\ pc' = "after_headers"
               ELSE /\ header_end_pos' = header_end_pos
                    /\ content_length' = content_length
                    /\ retry_count' = 0
                    /\ pc' = "headers"
    /\ attempts' = CountAttempt(FALSE)
    /\ only_timeouts' = FALSE
    /\ UNCHANGED <<Outside, Config, BodyState, result, would_blocks, only_data>>

\* Ok(Ok(0)) in the header loop: truncate and break
HeaderReadEof ==
    /\ pc = "headers" /\ HeaderLoopCond
    /\ pc' = "after_headers"
    /\ attempts' = CountAttempt(FALSE)
    /\ only_timeouts' = FALSE
    /\ only_data' = FALSE
    /\ UNCHANGED <<Outside, Config, Cuts, BodyState, sock_pos, header_buffer, header_end_pos,
                   content_length, retry_count, result, would_blocks>>

\* Ok(Err(WouldBlock)) in the header loop: truncate and continue
HeaderReadWouldBlock ==
    /\ pc = "headers" /\ HeaderLoopCond
    /\ would_blocks < MaxWouldBlock
    /\ would_blocks' = would_blocks + 1
    /\ attempts' = CountAttempt(FALSE)
    /\ only_timeouts' = FALSE
    /\ only_data' = FALSE
    /\ UNCHANGED <<Outside, Config, Cuts, BodyState, sock_pos, pc, header_buffer, header_end_pos,
                   content_length, retry_count, result>>

\* Ok(Err(e)), any other error, in the header loop: return Err(e)
HeaderReadIoError ==
    /\ pc = "headers" /\ HeaderLoopCond
    /\ pc' = "done"
    /\ result' = "err_io"
    /\ attempts' = CountAttempt(FALSE)
    /\ only_timeouts' = FALSE
    /\ only_data' = FALSE
    /\ UNCHANGED <<Outside, Config, Cuts, BodyState, sock_pos, header_buffer, header_end_pos,
                   content_length, retry_count, would_blocks>>

\* Err(Elapsed) in the header loop: truncate, count a retry, continue
HeaderReadTimeout ==
    /\ pc = "headers" /\ HeaderLoopCond
    /\ retry_count' = retry_count + 1
    /\ attempts' = CountAttempt(TRUE)
    /\ only_data' = FALSE
    /\ UNCHANGED <<Outside, Config, Cuts, BodyState, sock_pos, pc, header_buffer, header_end_pos,
                   content_length, result, would_blocks, only_timeouts>>

\* the header loop's condition is false
HeaderLoopExit ==
    /\ pc = "headers" /\ ~HeaderLoopCond
    /\ pc' = "after_headers"
    /\ UNCHANGED <<Outside, Config, Cuts, BodyState, sock_pos, header_buffer, header_end_pos,
                   content_length, retry_count, result, attempts, would_blocks,
                   only_timeouts, only_data>>

\* between the two loops
AfterHeaders ==
    /\ pc = "after_headers"
    /\ LET he == IF header_end_pos # NONE THEN header_end_pos ELSE Len(header_buffer)
           declared == IF content_length # NONE THEN content_length ELSE 0
           total == he + declared
           already_read == Min(Len(header_buffer), total)
       IN  \/ /\ flavor = "heap" /\ header_buffer = <<>>
              /\ result' = "err_nodata"
              /\ pc' = "done"
              /\ UNCHANGED <<header_end, total_expected_size, final_buffer,
                             total_read, retry_count>>
           \* header_end + content_length does not fit, in a build with
           \* overflow checks: the task panics
           \/ /\ flavor = "arena" \/ header_buffer # <<>>
              /\ Overflows(he, declared)
              /\ result' = "panic"
              /\ pc' = "done"
              /\ UNCHANGED <<header_end, total_expected_size, final_buffer,
                             total_read, retry_count>>
           \* the sum fits, or it wraps in a build without overflow checks
           \/ /\ flavor = "heap" /\ header_buffer # <<>>
              /\ header_end' = he
              /\ total_expected_size' = total
              /\ final_buffer' = header_buffer
              /\ total_read' = Len(header_buffer)
              /\ pc' = "body"
              /\ UNCHANGED <<result, retry_count>>
           \/ /\ flavor = "arena"
              /\ header_end' = he
              /\ total_expected_size' = total
              /\ final_buffer' = Slice(header_buffer, 0, already_read)
              /\ total_read' = already_read
              /\ retry_count' = 0
              /\ pc' = "body"
              /\ UNCHANGED result
    /\ UNCHANGED <<Outside, Config, Cuts, sock_pos, header_buffer, header_end_pos, content_length,
                   attempts, would_blocks, only_timeouts, only_data, body_stop>>

BodyLoopCond ==
    /\ total_read < total_expected_size
    /\ RetryBudgetLeft(retry_count, read_max_retry)

\* the size of the slice handed to stream.read in the body loop
chunk_size ==
    Min(total_expected_size - total_read,
        IF flavor = "heap" THEN buffer_size ELSE read_buffer_size)

\* Ok(Ok(n)), n > 0, in the body loop
BodyReadData ==
    /\ pc = "body" /\ BodyLoopCond
    /\ \E n \in 1..Min(chunk_size, Available) :
        /\ sock_pos' = sock_pos + n
        /\ NoteCut(sock_pos + n)
        /\ final_buffer' = final_buffer \o SubSeq(Sent(stream), sock_pos + 1, sock_pos + n)
        /\ total_read' = total_read + n
    /\ retry_count' = 0
    /\ attempts' = CountAttempt(FALSE)
    /\ only_timeouts' = FALSE
    /\ UNCHANGED <<Outside, Config, pc, header_buffer, header_end_pos, content_length, header_end,
                   total_expected_size, result, would_blocks, only_data, body_stop>>

\* Ok(Ok(0)) in the body loop: break
BodyReadEof ==
    /\ pc = "body" /\ BodyLoopCond
    /\ pc' = "finish"
    /\ body_stop' = "closed"
    /\ attempts' = CountAttempt(FALSE)
    /\ only_timeouts' = FALSE
    /\ only_data' = FALSE
    /\ UNCHANGED <<Outside, Config, Cuts, sock_pos, header_buffer, header_end_pos, content_length,
                   retry_count, header_end, total_expected_size, final_buffer,
                   total_read, result, would_blocks>>

\* the catch-all arm of the body loop
BodyRetry(timed_out) ==
    /\ pc = "body" /\ BodyLoopCond
    /\ retry_count' = retry_count + 1
    /\ attempts' = CountAttempt(timed_out)
    /\ only_data' = FALSE
    /\ only_timeouts' = (only_timeouts /\ timed_out)
    /\ UNCHANGED <<Outside, Config, Cuts, sock_pos, pc, header_buffer, header_end_pos, content_length,
                   header_end, total_expected_size, final_buffer, total_read, result,
                   would_blocks, body_stop>>

\* Err(Elapsed) in the body loop
BodyReadTimeout == BodyRetry(TRUE)

\* Ok(Err(WouldBlock)) in the body loop
BodyReadWouldBlock == BodyRetry(FALSE)

\* Ok(Err(e)), any other error, in the body loop
BodyReadIoError == BodyRetry(FALSE)

\* the body loop's condition is false
BodyLoopExit ==
    /\ pc = "body" /\ ~BodyLoopCond
    /\ pc' = "finish"
    /\ body_stop' = IF total_read < total_expected_size THEN "retries" ELSE "full"
    /\ UNCHANGED <<Outside, Config, Cuts, sock_pos, header_buffer, header_end_pos, content_length,
                   retry_count, header_end, total_expected_size, final_buffer,
                   total_read, result, attempts, would_blocks, only_timeouts, only_data>>

\* truncate to total_read and return Ok
Finish ==
    /\ pc = "finish"
    /\ result' = "ok"
    /\ pc' = "framing"
    /\ UNCHANGED <<Outside, Config, Cuts, BodyState, sock_pos, header_buffer, header_end_pos,
                   content_length, retry_count, attempts, would_blocks,
                   only_timeouts, only_data>>

Builds == {"scalar", "avx2", "sse2", "fallback"}

-----------------------------------------------------------------------------
(* The response parse_request hands to the handler.  A body, the bytes and *)
(* the arena response data are modelled by their lengths; `tag` tells what *)
(* the body string (Writer) or the response data (ArenaWriter) holds: a    *)
(* text, a path, or a path behind the marker "__ZERO_COPY_FILE__:".        *)
(* status is Response::status; set_status is the history of what the       *)
(* handler set it to, NONE while it set nothing.                           *)

BAD_REQUEST == 400
OK == 200

NoFile == [kind |-> "none", size |-> 0, fail_at |-> NONE]

\* the Response of get_parse_result_from_request and get_parse_result_arena
\* (writer = "Writer") and of get_parse_result_arena_writer ("ArenaWriter")
NewResponse_Mut(writer) ==
    [made |-> TRUE, writer |-> writer, status |-> OK, set_status |-> NONE,
     body |-> 0, tag |-> "text", bytes |-> 0, use_file |-> FALSE]

NewResponse(writer) ==
    [made |-> TRUE, writer |-> writer, status |-> BAD_REQUEST, set_status |-> NONE,
     body |-> 0, tag |-> "text", bytes |-> 0, use_file |-> FALSE]

NoResponse ==
    [made |-> FALSE, writer |-> "none", status |-> 0, set_status |-> NONE,
     body |-> 0, tag |-> "text", bytes |-> 0, use_file |-> FALSE]

NoChunks == [ran |-> FALSE, panic |-> FALSE, chunks |-> <<>>]

SplitIdle ==
    /\ split_data = <<>>
    /\ delimiter = <<>>
    /\ chunks = NoChunks
    /\ chunks_arena = NoChunks

EmitIdle ==
    /\ features = [response_file |-> FALSE, vectored_io |-> FALSE]
    /\ response = NoResponse
    /\ file = NoFile
    /\ writes = <<>>
    /\ wire = <<>>
    /\ emit_pc = "open"

\* what parse_request returns next to the request: Err when framing failed
ParseResult(req, writer) ==
    /\ response' = IF req.ok THEN NewResponse(writer) ELSE NoResponse
    /\ UNCHANGED <<features, file, writes, wire, emit_pc>>

\* parse_request: get_request on what get_bytes_from_reader returned
ParseRequest ==
    /\ pc = "framing" /\ flavor = "heap"
    /\ \E b \in Builds :
        /\ build' = b
        /\ request' = get_request(final_buffer, b)
    /\ ParseResult(request', "Writer")
    /\ pc' = "done"
    /\ UNCHANGED <<Config, Cuts, BodyState, sock_pos, header_buffer, header_end_pos,
                   content_length, retry_count, result, attempts, would_blocks,
                   only_timeouts, only_data, scanVars, frameVars, poolVars, cacheVars,
                   globalVars, splitVars>>

\* what from_raw_parts(data_ptr, header_end) addresses: the buffer, and past
\* its end whatever the memory holds there
Addressed(data, upto) ==
    IF upto <= Len(data) THEN {data}
    ELSE {data \o [i \in 1..(upto - Len(data)) |-> b] : b \in {0, 255}}

\* parse_request_arena and parse_request_arena_writer: parse_http_request_arena
\* on the ArenaBody that get_bytes_arena_direct returned
ParseRequestArena ==
    /\ pc = "framing" /\ flavor = "arena"
    /\ \E seen \in Addressed(final_buffer, header_end) :
          request' = parse_http_request_arena(seen, header_end, header_end)
    /\ \E writer \in {"Writer", "ArenaWriter"} : ParseResult(request', writer)
    /\ pc' = "done"
    /\ UNCHANGED <<Config, Cuts, BodyState, sock_pos, header_buffer, header_end_pos,
                   content_length, retry_count, result, attempts, would_blocks,
                   only_timeouts, only_data, build, scanVars, frameVars, poolVars,
                   cacheVars, globalVars, splitVars>>

ReaderIdle ==
    /\ flavor = "heap"
    /\ stream = [hdr |-> <<>>, body |-> <<>>, extra |-> <<>>, cl |-> NONE]
    /\ read_max_retry = 0
    /\ read_buffer_size = 0
    /\ sock_pos = 0
    /\ pc = "idle"
    /\ header_buffer = <<>>
    /\ header_end_pos = NONE
    /\ content_length = NONE
    /\ retry_count = 0
    /\ header_end = 0
    /\ total_expected_size = 0
    /\ final_buffer = <<>>
    /\ total_read = 0
    /\ result = "none"
    /\ attempts = 0
    /\ would_blocks = 0
    /\ only_timeouts = TRUE
    /\ only_data = TRUE
    /\ cut_in_marker = FALSE
    /\ cut_in_body = FALSE
    /\ body_stop = "none"

-----------------------------------------------------------------------------
(* The scanner applied to inputs of every length up to MaxScanLen *)

Filler == 120   \* "x"

Marker == <<CR, LF, CR, LF>>

\* what is laid over the filler at the chosen offset
Patterns ==
    { <<>>,                         \* no delimiter at all
      Marker,                       \* the delimiter
      <<CR, LF, CR>>,               \* a delimiter cut short
      <<CR, CR, LF, CR, LF>>,       \* a CR right before the delimiter
      <<CR, LF, CR, CR, LF, CR, LF, Filler, CR, LF, CR, LF>> }   \* a false start, then two

\* len bytes of filler with pat laid over them from offset at (cut at len)
Laid(len, at, pat) ==
    [i \in 1..len |-> IF i - 1 >= at /\ i - 1 < at + Len(pat) THEN pat[i - at] ELSE Filler]

\* the callers of the pool and the hosts they connect to
Tasks == {"t1", "t2"}
Hosts == {"a"}

NoStream == 0
NoHit == [idle |-> NONE, age |-> NONE, skipped |-> 0]

\* ConnectionPoolConfig::disabled()
disabled ==
    [max_connections_per_host |-> 0, max_idle_time |-> 0, max_lifetime |-> 0,
     enable_keep_alive |-> FALSE]

\* no pool is in use
PoolIdle ==
    /\ pool_config = disabled
    /\ pools = [h \in {} |-> <<>>]
    /\ now = 0
    /\ task = [t \in Tasks |-> [pc |-> "off", addr |-> "a", stream |-> NoStream, keep_alive |-> FALSE]]
    /\ cleanup_pc = "off"
    /\ cleanup_remaining = {}
    /\ cleanup_addr = "a"
    /\ total_connections = 0
    /\ active_connections = 0
    /\ reused_connections = 0
    /\ connection_hits = 0
    /\ connection_misses = 0
    /\ get_calls = 0
    /\ opened_at = <<>>
    /\ last_hit = NoHit
    /\ last_return = "none"
    /\ sweep_clean = TRUE

NoFiles == [p \in {} |-> [last_accessed |-> 0, original_size |-> 0]]
NoLoad == [path |-> "", kind |-> "none", before |-> NoFiles, evicted |-> <<>>]
NoSweep == [ran |-> FALSE, before |-> NoFiles, now |-> 0]

NoLoader == [t \in Tasks |-> [pc |-> "idle", path |-> "", made |-> 0, left |-> NoFiles]]

CacheIdle ==
    /\ cache_config = [max_cache_files |-> 0, max_cache_file_size |-> 0,
                       total_cache_size_limit |-> 0, cache_duration |-> 0]
    /\ memory_cache = NoFiles
    /\ system_time = 0
    /\ cache_pc = "off"
    /\ access_log = <<>>
    /\ last_load = NoLoad
    /\ last_sweep = NoSweep
    /\ loader = NoLoader

Kinds == {"cache", "pool"}
Unset == 0

GlobalIdle ==
    /\ global_cell = [k \in Kinds |-> Unset]
    /\ created = [k \in Kinds |-> 0]
    /\ gtask = [t \in Tasks |-> [pc |-> "off", kind |-> "cache", instance |-> Unset]]
    /\ observed = [k \in Kinds |-> {}]
    /\ set_refused = {}

StoreIdle == PoolIdle /\ CacheIdle /\ GlobalIdle

ScanIdle ==
    /\ scan_data = <<>>
    /\ scan_result = NONE
    /\ scan_pc = "idle"

FrameIdle ==
    /\ frame_data = <<>>
    /\ heap_request = NoRequest
    /\ arena_request = NoRequest
    /\ heap_decoded = NoDecode
    /\ arena_decoded = NoDecode

ScanInit ==
    /\ ReaderIdle
    /\ StoreIdle
    /\ EmitIdle /\ SplitIdle
    /\ build = "none"
    /\ request = NoRequest
    /\ FrameIdle
    /\ scan_pc = "ready"
    /\ scan_result = NONE
    /\ \E len \in 0..MaxScanLen, pat \in Patterns :
           \E at \in 0..len : scan_data = Laid(len, at, pat)

Scan(b) ==
    /\ scan_pc = "ready"
    /\ build' = b
    /\ scan_result' = find_header_end_simd(scan_data, b)
    /\ scan_pc' = "done"
    /\ UNCHANGED <<readerVars, scan_data, request, frameVars, storeVars>>

\* find_header_end_simd on a CPU with AVX2
ScanAvx2 == Scan("avx2")

\* find_header_end_simd on a CPU with SSE2 and no AVX2
ScanSse2 == Scan("sse2")

\* find_header_end_simd on a target that is not x86_64
ScanFallback == Scan("fallback")

\* find_header_end_optimized of http_stream.rs on the same input
ScanOptimized ==
    /\ scan_pc = "ready"
    /\ build' = "optimized"
    /\ scan_result' = find_header_end_optimized(scan_data)
    /\ scan_pc' = "done"
    /\ UNCHANGED <<readerVars, scan_data, request, frameVars, storeVars>>

\* find_header_end_optimized of traits/mod.rs on the same input
ScanOptimizedMod ==
    /\ scan_pc = "ready"
    /\ build' = "windows"
    /\ scan_result' = find_header_end_optimized_mod(scan_data)
    /\ scan_pc' = "done"
    /\ UNCHANGED <<readerVars, scan_data, request, frameVars, storeVars>>

ScanNext == ScanAvx2 \/ ScanSse2 \/ ScanFallback \/ ScanOptimized \/ ScanOptimizedMod

SpecScan == ScanInit /\ [][ScanNext]_vars

-----------------------------------------------------------------------------
(* Both framers applied to the same header blocks *)

RequestLines ==
    { <<71,69,84,32,47,104,101,108,108,111,32,72,84,84,80,47,49,46,49>>,   \* "GET /hello HTTP/1.1"
      <<80,79,83,84,32,47,100,32,72,84,84,80,47,49,46,48>>,   \* "POST /d HTTP/1.0"
      <<71,69,84>>,   \* "GET": no URI, no version
      <<71,69,84,32,47>>,   \* "GET /": no version
      <<>>,   \* "": an empty request line
      <<32,47,32,72,84,84,80,47,49,46,49>>,   \* " / HTTP/1.1": no method
      <<71,64,84,32,47,32,72,84,84,80,47,49,46,49>>,   \* "G@T / HTTP/1.1": an unparseable method
      <<71,69,84,32,32,72,84,84,80,47,49,46,49>>,   \* "GET  HTTP/1.1": an empty URI
      <<71,69,84,32,47,60,32,72,84,84,80,47,50,46,48>>,   \* "GET /< HTTP/2.0": an unparseable URI
      <<71,69,84,32,47,32,72,84,84,80,47,57,46,57>>,   \* "GET / HTTP/9.9": an unrecognized version
      <<71,69,84,32,47,32,72,84,84,80,47,51,46,48>>,   \* "GET / HTTP/3.0"
      <<71,69,84,32,47,255,32,72,84,84,80,47,49,46,49>>,   \* "GET /\xFF HTTP/1.1": a byte that is no UTF-8 in the URI
      <<71,64,84,32,47,60,32,72,84,84,88>> }   \* "G@T /< HTTX": nothing parses

HeaderLines ==
    { <<72,111,115,116,58,32,120>>,   \* "Host: x"
      <<88,58,32,97,58,32,98>>,   \* "X: a: b": a value holding ': '
      <<32,72,111,115,116,58,32,120>>,   \* " Host: x": leading whitespace
      <<72,111,115,116,58,32,120,32>>,   \* "Host: x ": trailing whitespace
      <<78,111,67,111,108,111,110>>,   \* "NoColon": no ': '
      <<72,111,115,116,58,120>>,   \* "Host:x": a colon with no space
      <<88,58,32>>,   \* "X: ": an empty value
      <<72,79,83,84,58,32,65>> }   \* "HOST: A": an upper-case name

Hi == <<104, 105>>   \* "hi"

QuotedHi == <<34, 104, 105, 34>>    \* "\"hi\"": a JSON document
QuotedBad == <<34, 104, 255, 34>>   \* "\"h\xFF\"": a byte that is no UTF-8 in a string literal

\* the bodies the peer sends after the header block
Bodies == {<<>>, Hi, QuotedHi, QuotedBad}

\* a buffer the reader never found a delimiter in: "GET / HTTP/1.1\r\n"
Unterminated == <<71,69,84,32,47,32,72,84,84,80,47,49,46,49,13,10>>

RECURSIVE JoinLines(_)
JoinLines(lines) ==
    IF lines = <<>> THEN <<>> ELSE Head(lines) \o CRLF \o JoinLines(Tail(lines))

\* request line, header lines, the empty line, a body
Message(first, lines, body) == first \o CRLF \o JoinLines(lines) \o CRLF \o body

HeaderLineSeqs ==
    {<<>>} \cup {<<a>> : a \in HeaderLines} \cup {<<a, b>> : a \in HeaderLines, b \in HeaderLines}

\* the header_end the reader hands to ArenaBody::new for a buffer
HeaderEndOf(data) ==
    LET pos == find_header_end_optimized(data)
    IN  IF pos = NONE THEN Len(data) ELSE pos + 4

\* the lines of frame_data after the request line, as text
SentLines(data) ==
    LET pos == PlainScan(data)
        block == from_utf8_lossy(IF pos = NONE THEN data ELSE Slice(data, 0, pos))
    IN  split(block, CRLF)

FrameInit ==
    /\ ReaderIdle
    /\ StoreIdle
    /\ EmitIdle /\ SplitIdle
    /\ ScanIdle
    /\ build = "none"
    /\ request = NoRequest
    /\ heap_request = NoRequest
    /\ arena_request = NoRequest
    /\ heap_decoded = NoDecode
    /\ arena_decoded = NoDecode
    /\ \/ \E first \in RequestLines, lines \in HeaderLineSeqs, body \in Bodies :
              frame_data = Message(first, lines, body)
       \/ frame_data = Unterminated

\* get_request on the buffer
FrameHeap ==
    /\ heap_request = NoRequest
    /\ \E b \in Builds :
        /\ build \in {"none", b}
        /\ build' = b
        /\ heap_request' = get_request(frame_data, b)
    /\ UNCHANGED <<readerVars, scanVars, request, frame_data, arena_request, heap_decoded,
                   arena_decoded, storeVars>>

\* parse_http_request_arena on an ArenaBody over the same buffer
FrameArena ==
    /\ arena_request = NoRequest
    /\ arena_request' =
           parse_http_request_arena(frame_data, HeaderEndOf(frame_data), HeaderEndOf(frame_data))
    /\ UNCHANGED <<readerVars, scanVars, request, build, frame_data, heap_request,
                   heap_decoded, arena_decoded, storeVars>>

\* a handler decodes the body of the heap request as text and as JSON
DecodeHeap ==
    /\ heap_request.ok
    /\ heap_decoded = NoDecode
    /\ heap_decoded' = [text |-> get_text(heap_request), json |-> get_json(heap_request)]
    /\ UNCHANGED <<readerVars, scanVars, request, build, frame_data, heap_request,
                   arena_request, arena_decoded, storeVars>>

\* a handler decodes the body of the arena request as text and as JSON
DecodeArena ==
    /\ arena_request.ok
    /\ arena_decoded = NoDecode
    /\ arena_decoded' = [text |-> get_text_arena(arena_request),
                         json |-> parse_json_zero_copy(arena_request)]
    /\ UNCHANGED <<readerVars, scanVars, request, build, frame_data, heap_request,
                   arena_request, heap_decoded, storeVars>>

FrameNext == FrameHeap \/ FrameArena \/ DecodeHeap \/ DecodeArena

SpecFramer == FrameInit /\ [][FrameNext]_vars

-----------------------------------------------------------------------------
(* extract_content_length_simple applied to header blocks as the reader    *)
(* hands them over: the block up to and including its CRLFCRLF             *)

LengthRequestLines ==
    { <<71,69,84,32,47,32,72,84,84,80,47,49,46,49>>,   \* "GET / HTTP/1.1"
      <<71,69,84,32,47,99,111,110,116,101,110,116,45,108,101,110,103,116,104,58,52,
        32,72,84,84,80,47,49,46,49>> }   \* "GET /content-length:4 HTTP/1.1"

LengthHeaderLines ==
    { <<72,111,115,116,58,32,120>>,   \* "Host: x"
      <<67,111,110,116,101,110,116,45,76,101,110,103,116,104,58,32,53>>,   \* "Content-Length: 5"
      <<67,79,78,84,69,78,84,45,76,69,78,71,84,72,58,9,49,50>>,   \* "CONTENT-LENGTH:\t12"
      <<88,45,67,111,110,116,101,110,116,45,76,101,110,103,116,104,58,32,57>>,   \* "X-Content-Length: 9"
      <<88,58,32,99,111,110,116,101,110,116,45,108,101,110,103,116,104,58,32,51>>,   \* "X: content-length: 3"
      <<67,111,110,116,101,110,116,45,76,101,110,103,116,104,58,32,97>> }   \* "Content-Length: a"

LengthInit ==
    /\ ReaderIdle
    /\ StoreIdle
    /\ EmitIdle /\ SplitIdle
    /\ build = "none"
    /\ request = NoRequest
    /\ FrameIdle
    /\ scan_pc = "ready"
    /\ scan_result = NONE
    /\ \E first \in LengthRequestLines :
       \E lines \in {<<>>} \cup {<<a>> : a \in LengthHeaderLines}
                       \cup {<<a, b>> : a \in LengthHeaderLines, b \in LengthHeaderLines} :
           scan_data = Message(first, lines, <<>>)

\* content_length = extract_content_length_simple(&header_buffer[..header_end_pos])
ExtractLength ==
    /\ scan_pc = "ready"
    /\ scan_result' = extract_content_length_simple(scan_data)
    /\ scan_pc' = "done"
    /\ UNCHANGED <<readerVars, build, scan_data, request, frameVars, storeVars>>

LengthNext == ExtractLength

SpecLength == LengthInit /\ [][LengthNext]_vars

-----------------------------------------------------------------------------
(* The reader's specification *)

ReaderNext ==
    \/ HeaderReadData
    \/ HeaderReadEof
    \/ HeaderReadWouldBlock
    \/ HeaderReadIoError
    \/ HeaderReadTimeout
    \/ HeaderLoopExit
    \/ AfterHeaders
    \/ BodyReadData
    \/ BodyReadEof
    \/ BodyReadTimeout
    \/ BodyReadWouldBlock
    \/ BodyReadIoError
    \/ BodyLoopExit
    \/ Finish
    \/ ParseRequest
    \/ ParseRequestArena

ReaderInit ==
    ReaderStart /\ build = "none" /\ request = NoRequest /\ ScanIdle /\ FrameIdle /\ StoreIdle
        /\ EmitIdle /\ SplitIdle


SpecReader == ReaderInit /\ [][ReaderNext]_vars

\* the reader on the streams of StreamsNearMax
ReaderNearMaxInit ==
    ReaderStartOn(StreamsNearMax) /\ build = "none" /\ request = NoRequest /\ ScanIdle
        /\ FrameIdle /\ StoreIdle /\ EmitIdle /\ SplitIdle

SpecReaderNearMax == ReaderNearMaxInit /\ [][ReaderNext]_vars

-----------------------------------------------------------------------------
(* Claims about the reader, under SpecReader *)

Returned == pc \in {"framing", "done"}

Declared(st) == IF st.cl = NONE THEN 0 ELSE st.cl

\* C1: when the reader returns success for a message whose header block
\* declares Content-Length: N, the returned buffer holds at least
\* header_end + N bytes.
C1_SuccessImpliesWholeBody ==
    (Returned /\ result = "ok" /\ header_end_pos # NONE /\ stream.cl # NONE)
        => Len(final_buffer) >= Len(stream.hdr) + stream.cl

\* C2: when the body loop ends because the retry counter reached
\* read_max_retry, or because the peer closed the connection, with fewer than
\* header_end + Content-Length bytes buffered, the reader returns an error.
C2_IncompleteBodyIsError ==
    (Returned /\ body_stop \in {"retries", "closed"} /\ total_read < total_expected_size)
        => result \in {"err_nodata", "err_io", "err_incomplete"}

\* C3: with read_max_retry = R >= 1 and a socket on which every read times
\* out, get_bytes_from_reader makes exactly R read attempts, never more, and
\* then returns an error.
C3_RetryCeiling ==
    (flavor = "heap" /\ read_max_retry >= 1 /\ only_timeouts)
        => /\ attempts <= read_max_retry
           /\ pc # "headers" => (attempts = read_max_retry /\ result # "ok")
           /\ pc = "done" => result = "err_nodata"

C3_Witness ==
    /\ flavor = "heap" /\ read_max_retry >= 2 /\ only_timeouts
    /\ pc = "done" /\ attempts = read_max_retry /\ result = "err_nodata"

\* C4: when the stream ends, or the retry budget runs out, before any byte
\* has been received, the heap reader and the arena reader both return an
\* error.
C4_NoDataIsError ==
    (Returned /\ sock_pos = 0) => result \in {"err_nodata", "err_io"}

\* C5: however a complete message is cut into consecutive non-empty reads,
\* also inside the CRLFCRLF or inside the body, get_bytes_from_reader ends as
\* it does when the message arrives in one read: with no read allowed
\* (read_max_retry = 0) it reports that no data was received; otherwise it
\* returns the bytes sent, finds header_end right after the first CRLFCRLF,
\* and the framed body is the body sent. The header end is found by the very
\* read that delivers the last byte of the CRLFCRLF, with no further read.
C5_EveryCutFramesTheSame ==
    /\ (flavor = "heap" /\ IsCompleteMessage(stream) /\ only_data
            /\ sock_pos >= Len(stream.hdr))
           => header_end_pos = Len(stream.hdr)
    /\ (flavor = "heap" /\ IsCompleteMessage(stream) /\ only_data /\ Returned)
           => IF read_max_retry = 0 THEN result = "err_nodata"
              ELSE /\ result = "ok"
                   /\ final_buffer = Sent(stream)
                   /\ header_end = Len(stream.hdr)
                   /\ pc = "done" => (request.ok /\ request.body = stream.body)

C5_Witness ==
    /\ flavor = "heap" /\ IsCompleteMessage(stream) /\ only_data
    /\ cut_in_marker /\ cut_in_body
    /\ pc = "done" /\ request.ok /\ request.body = Hello

\* C6: the body of the request parse_request produces has exactly the
\* declared Content-Length bytes, and is empty when no Content-Length was
\* declared, also when the socket hands over further bytes in the same read;
\* stated here for the runs in which every read returned data.
C6_BodyHasDeclaredLength ==
    (pc = "done" /\ result = "ok" /\ only_data /\ request.ok)
        => Len(request.body) = Declared(stream)

-----------------------------------------------------------------------------
(* Claims about the framers, under SpecFramer *)

Framed == heap_request # NoRequest /\ arena_request # NoRequest

\* the rule for a header line: split at the first ": ", lowercase the name,
\* keep the whole rest as the value; a line without ": " gives no header
RuleHeader(line) ==
    LET at == find(line, ColonSpace)
    IN  IF at = NONE THEN <<>>
        ELSE <<[name |-> to_lowercase(Slice(line, 0, at)),
                value |-> Slice(line, at + 2, Len(line))]>>

RECURSIVE RuleHeadersFrom(_, _)
RuleHeadersFrom(lines, from) ==
    IF from > Len(lines) THEN <<>>
    ELSE RuleHeader(lines[from]) \o RuleHeadersFrom(lines, from + 1)

RuleHeaders(data) == RuleHeadersFrom(SentLines(data), 2)

\* frame_data is a terminated header block in UTF-8
WellFormedBlock == PlainScan(frame_data) # NONE /\ Utf8Valid(frame_data)

\* C7: the heap framer and the arena framer produce the same method, URI,
\* version and ordered header list from the same header block; stated here
\* for the blocks both of them frame.
C7_FramersAgree ==
    (Framed /\ heap_request.ok /\ arena_request.ok)
        => /\ heap_request.method = arena_request.method
           /\ heap_request.uri = arena_request.uri
           /\ heap_request.version = arena_request.version
           /\ heap_request.headers = arena_request.headers

\* C8: a header line holding ": " is stored as one header, its name the
\* lowercased text before the first ": " and its value all of the rest; a
\* line without ": " stores nothing, and framing succeeds; stated here for
\* both framers on terminated UTF-8 blocks.
C8_HeaderLineRule ==
    /\ (heap_request # NoRequest /\ WellFormedBlock)
           => (heap_request.ok /\ heap_request.headers = RuleHeaders(frame_data))
    /\ (arena_request # NoRequest /\ WellFormedBlock)
           => (arena_request.ok /\ arena_request.headers = RuleHeaders(frame_data))

\* the request line of frame_data, cut at the spaces
RequestLineParts == split(SentLines(frame_data)[1], Space)

\* frame_data has a request line and no header line
OnlyRequestLine ==
    /\ PlainScan(frame_data) # NONE
    /\ SentLines(frame_data)[1] # <<>>
    /\ \A i \in 2..Len(SentLines(frame_data)) : SentLines(frame_data)[i] = <<>>

\* the defaults of the request line, one field at a time
RequestLineDefaults(r) ==
    /\ r.ok
    /\ ParseMethod(RequestLineParts[1]) = Nothing => r.method = GET
    /\ (Len(RequestLineParts) < 2 \/ ParseUri(Nth(RequestLineParts, 2)[1]) = Nothing)
           => r.uri = Slash
    /\ (Len(RequestLineParts) < 3
           \/ Nth(RequestLineParts, 3)[1] \notin
                  {HTTP_09_STR, HTTP_10_STR, HTTP_11_STR, HTTP_20_STR, HTTP_30_STR})
           => r.version = "HTTP_11"

\* C9: framing never fails because of the request line: a missing or
\* unparseable method gives GET, a missing or unparseable URI gives "/", a
\* missing or unrecognized version gives HTTP/1.1, each whatever the other
\* two fields are; stated here for blocks that hold a request line only.
C9_RequestLineNeverFails ==
    OnlyRequestLine
        => /\ heap_request # NoRequest => RequestLineDefaults(heap_request)
           /\ arena_request # NoRequest => RequestLineDefaults(arena_request)

\* the decode failed because the bytes are no UTF-8
DecodeFailed(r) == ~r.ok /\ r.err = "utf8"

\* C28: decoding a body as text or as JSON fails with a decode error exactly
\* when the body bytes are not valid UTF-8, in the heap flavour (get_text,
\* get_json) and in the arena flavour (get_text_arena, parse_json_zero_copy),
\* and framing never fails because of invalid UTF-8 in the message.
C28_DecodeFailsExactlyOnInvalidUtf8 ==
    /\ heap_decoded # NoDecode
           => /\ DecodeFailed(heap_decoded.text) <=> ~Utf8Valid(heap_request.body)
              /\ DecodeFailed(heap_decoded.json) <=> ~Utf8Valid(heap_request.body)
    /\ arena_decoded # NoDecode
           => /\ DecodeFailed(arena_decoded.text) <=> ~Utf8Valid(arena_request.body)
              /\ DecodeFailed(arena_decoded.json) <=> ~Utf8Valid(arena_request.body)
    /\ heap_request.err # "utf8"
    /\ arena_request.err # "utf8"

-----------------------------------------------------------------------------
(* Further claims about the reader, under SpecReader *)

\* C29: a read that returns WouldBlock increments the retry counter as a
\* read that times out does, so that a socket answering every read with
\* WouldBlock makes the reader stop after read_max_retry attempts.
\* would_blocks counts the reads of the header loop that returned WouldBlock;
\* in the body loop WouldBlock takes the catch-all arm, BodyRetry.
C29_WouldBlockCountsAsRetry ==
    [][would_blocks' = would_blocks + 1 => retry_count' = retry_count + 1]_vars

\* C30: in the body loop a read of zero bytes with fewer than
\* header_end + Content-Length bytes buffered counts as a retry and is
\* followed by another read while the budget lasts; it does not end the loop.
C30_ZeroReadInBodyIsRetried ==
    (pc \in {"finish", "framing", "done"} /\ total_read < total_expected_size)
        => body_stop # "closed"

\* C31: a read that fails with an I/O error other than a timeout or
\* WouldBlock, in the header loop or in the body loop, makes the reader
\* return that error at once: no further read, and the retry counter as it
\* was.
C31_IoErrorReturnsAtOnce ==
    [][(HeaderReadIoError \/ BodyReadIoError)
           => (pc' = "done" /\ result' = "err_io" /\ retry_count' = retry_count)]_vars

\* C40: every ArenaBody built by get_bytes_arena_direct satisfies
\* header_end <= body_start <= total_len, whatever the outcome of the reads
\* (early peer close, retries exhausted, no delimiter found, no byte
\* received), so that get_headers and get_body_bytes address no byte outside
\* the buffer the ArenaBody owns.  total_len is the length of
\* arena_data[..total_read], and body_start is passed as header_end.
C40_ArenaBodyInBounds ==
    (flavor = "arena" /\ Returned /\ result = "ok")
        => LET body_start == header_end
           IN  header_end <= body_start /\ body_start <= Len(final_buffer)

-----------------------------------------------------------------------------
(* The claim about the body length, under SpecLength *)

Colon == <<58>>

\* the value of a header line whose name is content-length, case-insensitively;
\* <<>> for any other line
LengthOfLine(line) ==
    LET colon_pos == find(line, Colon)
    IN  IF colon_pos = NONE THEN <<>>
        ELSE IF to_lowercase(Slice(line, 0, colon_pos)) # Slice(ContentLengthPattern, 0, 14)
        THEN <<>>
        ELSE LET value == trim(Slice(line, colon_pos + 1, Len(line)))
             IN  IF value # <<>> /\ SkipDigits(value, 0) = Len(value)
                 THEN <<ParseDigits(value)>> ELSE <<NONE>>

\* the length the first content-length header of the block declares, NONE when
\* the block has no such header
RECURSIVE DeclaredLength(_, _)
DeclaredLength(lines, from) ==
    IF from > Len(lines) THEN NONE
    ELSE IF LengthOfLine(lines[from]) # <<>> THEN LengthOfLine(lines[from])[1]
    ELSE DeclaredLength(lines, from + 1)

\* C32: the body length the reader uses is the value of the header whose
\* name is content-length, compared case-insensitively, and is absent when
\* there is no such header; the text "content-length:" inside another
\* header's name, inside a header value or in the request line sets nothing.
C32_LengthIsTheContentLengthHeader ==
    scan_pc = "done" => scan_result = DeclaredLength(SentLines(scan_data), 2)

-----------------------------------------------------------------------------
(* Claims about the scanners, under SpecScan *)

\* C10: on every input, through the AVX2 path and the SSE2 path,
\* find_header_end_simd returns what a plain left-to-right scan for CRLFCRLF
\* returns: the same offset, or not-found.
C10_SimdEqualsPlainScan ==
    (scan_pc = "done" /\ build \in {"avx2", "sse2"}) => scan_result = PlainScan(scan_data)

\* C39: find_header_end_simd and the scalar routine it falls back to return
\* a result with no out-of-range slice access for every input: the empty
\* input, inputs shorter than 4 bytes, and inputs whose tail after the last
\* full 16-byte or 32-byte block is shorter than 4 bytes.
C39_SimdNeverOutOfRange ==
    (scan_pc = "done" /\ build \in {"avx2", "sse2", "fallback"}) => scan_result # PANIC

-----------------------------------------------------------------------------
(* The connection pool of connection_pool.rs.  Time is a counter of ticks;  *)
(* the durations of the configuration are numbers of ticks.  A critical     *)
(* section of a queue's Mutex holds no await, so each is one step; the      *)
(* await between looking a queue up in the map and locking it is a step     *)
(* boundary.  The shard locks of the DashMap are modelled where one task    *)
(* locks a shard against itself; waiting of one task for the shard lock of  *)
(* another is left out, so the steps below interleave at least as freely    *)
(* as the tasks do.                                                         *)

MaxTime == 3
MaxCalls == 3

PoolConfigs ==
    { [max_connections_per_host |-> 2, max_idle_time |-> 1, max_lifetime |-> 2,
       enable_keep_alive |-> TRUE],
      [max_connections_per_host |-> 1, max_idle_time |-> 2, max_lifetime |-> 3,
       enable_keep_alive |-> TRUE],
      [max_connections_per_host |-> 0, max_idle_time |-> 1, max_lifetime |-> 1,
       enable_keep_alive |-> TRUE],
      [max_connections_per_host |-> 1, max_idle_time |-> 1, max_lifetime |-> 2,
       enable_keep_alive |-> FALSE],
      disabled }

\* PooledConnection::new(stream): ConnectionMetadata::new() stamps both times
PooledConnection(stream_id) ==
    [stream |-> stream_id, created_at |-> now, last_used |-> now]

\* ConnectionMetadata::is_expired
is_expired_Mut(conn, max_idle_time, max_lifetime) ==
    now - conn.created_at > max_lifetime
is_expired(conn, max_idle_time, max_lifetime) ==
    \/ now - conn.last_used > max_idle_time
    \/ now - conn.created_at > max_lifetime

Expired(conn) == is_expired(conn, pool_config.max_idle_time, pool_config.max_lifetime)

\* pools.entry(addr).or_insert_with(|| Arc::new(Mutex::new(VecDeque::new())))
or_insert(addr) ==
    [h \in DOMAIN pools \cup {addr} |-> IF h \in DOMAIN pools THEN pools[h] ELSE <<>>]

\* the queue of addr replaced by q
WithQueue(addr, q) == [pools EXCEPT ![addr] = q]

\* the index of the first entry of q that pop_front yields unexpired, or 0
FirstLive(q) ==
    LET live == {i \in 1..Len(q) : ~Expired(q[i])}
    IN  IF live = {} THEN 0 ELSE MinOf(live)

\* what the queue holds after the entry at index i has been popped
pop_front_Mut(q, i) == SubSeq(q, i, Len(q))
pop_front(q, i) == SubSeq(q, i + 1, Len(q))

\* the test of return_connection for a full queue
IsFull_Mut(q) == Len(q) > pool_config.max_connections_per_host
IsFull(q) == Len(q) >= pool_config.max_connections_per_host

\* VecDeque::retain(|conn| !conn.is_expired(..))
IsLive(conn) == ~Expired(conn)
retain(q) == SelectSeq(q, IsLive)

PoolStart ==
    /\ pool_config \in PoolConfigs
    /\ pools = [h \in {} |-> <<>>]
    /\ now = 0
    /\ task = [t \in Tasks |-> [pc |-> "idle", addr |-> "a", stream |-> NoStream, keep_alive |-> FALSE]]
    /\ cleanup_pc = "idle"
    /\ cleanup_remaining = {}
    /\ cleanup_addr = "a"
    /\ total_connections = 0
    /\ active_connections = 0
    /\ reused_connections = 0
    /\ connection_hits = 0
    /\ connection_misses = 0
    /\ get_calls = 0
    /\ opened_at = <<>>
    /\ last_hit = NoHit
    /\ last_return = "none"
    /\ sweep_clean = TRUE

NotPool == <<readerVars, build, scanVars, request, frameVars, cacheVars, globalVars,
            emitVars, splitVars>>
Counters == <<total_connections, active_connections, reused_connections,
              connection_hits, connection_misses>>
Sweep == <<cleanup_pc, cleanup_remaining, cleanup_addr, sweep_clean>>
Hits == <<last_hit, last_return>>

\* the pool miss: the three counters, which no await separates from what
\* comes before them
RecordMiss_Mut ==
    /\ connection_misses' = connection_misses
    /\ total_connections' = total_connections + 1
    /\ active_connections' = active_connections + 1
RecordMiss ==
    /\ connection_misses' = connection_misses + 1
    /\ total_connections' = total_connections + 1
    /\ active_connections' = active_connections + 1

\* get_connection(addr), up to the first await: pool.lock() when the map
\* holds a queue for addr, else TcpStream::connect
GetLookup(t) ==
    /\ task[t].pc = "idle" /\ task[t].stream = NoStream
    /\ get_calls < MaxCalls
    /\ get_calls' = get_calls + 1
    /\ \E addr \in Hosts :
        IF addr \in DOMAIN pools
        THEN /\ task' = [task EXCEPT ![t].addr = addr, ![t].pc = "g_lock"]
             /\ UNCHANGED <<total_connections, active_connections, connection_misses>>
        ELSE /\ task' = [task EXCEPT ![t].addr = addr, ![t].pc = "g_connect"]
             /\ RecordMiss
    /\ UNCHANGED <<NotPool, pool_config, pools, now, Sweep, reused_connections,
                   connection_hits, opened_at, Hits>>

\* under the lock: the while loop over pop_front, up to the return of a
\* pooled stream or to TcpStream::connect
GetPop(t) ==
    /\ task[t].pc = "g_lock"
    /\ LET q == pools[task[t].addr]
           i == FirstLive(q)
       IN  IF i # 0
           THEN /\ pools' = WithQueue(task[t].addr, pop_front(q, i))
                /\ connection_hits' = connection_hits + 1
                /\ reused_connections' = reused_connections + 1
                /\ task' = [task EXCEPT ![t].pc = "idle", ![t].stream = q[i].stream]
                /\ last_hit' = [idle |-> now - q[i].last_used,
                                age |-> now - opened_at[q[i].stream],
                                skipped |-> i - 1]
                /\ UNCHANGED <<total_connections, active_connections, connection_misses>>
           ELSE /\ pools' = WithQueue(task[t].addr, <<>>)
                /\ task' = [task EXCEPT ![t].pc = "g_connect"]
                /\ RecordMiss
                /\ UNCHANGED <<connection_hits, reused_connections, last_hit>>
    /\ UNCHANGED <<NotPool, pool_config, now, Sweep, get_calls, opened_at, last_return>>

\* TcpStream::connect(addr).await is Ok
GetConnectOk(t) ==
    /\ task[t].pc = "g_connect"
    /\ opened_at' = Append(opened_at, now)
    /\ task' = [task EXCEPT ![t].pc = "idle", ![t].stream = Len(opened_at) + 1]
    /\ UNCHANGED <<NotPool, pool_config, pools, now, Sweep, Counters, get_calls, Hits>>

\* TcpStream::connect(addr).await? is Err
GetConnectErr(t) ==
    /\ task[t].pc = "g_connect"
    /\ task' = [task EXCEPT ![t].pc = "idle"]
    /\ UNCHANGED <<NotPool, pool_config, pools, now, Sweep, Counters, get_calls, opened_at,
                   Hits>>

\* the first test of return_connection
ShouldDiscard_Mut(keep_alive) == ~keep_alive /\ ~pool_config.enable_keep_alive
ShouldDiscard(keep_alive) == ~keep_alive \/ ~pool_config.enable_keep_alive

\* return_connection with !keep_alive || !self.config.enable_keep_alive
ReturnDiscard(t) ==
    /\ task[t].pc = "idle" /\ task[t].stream # NoStream
    /\ \E keep_alive \in BOOLEAN : ShouldDiscard(keep_alive)
    /\ active_connections' = active_connections - 1
    /\ task' = [task EXCEPT ![t].stream = NoStream]
    /\ last_return' = "discarded"
    /\ UNCHANGED <<NotPool, pool_config, pools, now, Sweep, total_connections,
                   reused_connections, connection_hits, connection_misses, get_calls,
                   opened_at, last_hit>>

\* return_connection with keep_alive, up to pool.lock().await
ReturnEntry(t) ==
    /\ task[t].pc = "idle" /\ task[t].stream # NoStream
    /\ \E keep_alive \in BOOLEAN :
          /\ ~ShouldDiscard(keep_alive)
          /\ task' = [task EXCEPT ![t].pc = "r_lock", ![t].keep_alive = keep_alive]
    /\ pools' = or_insert(task[t].addr)
    /\ UNCHANGED <<NotPool, pool_config, now, Sweep, Counters, get_calls, opened_at, Hits>>

\* return_connection under the lock: drop when full, else push_back
ReturnPush(t) ==
    /\ task[t].pc = "r_lock"
    /\ LET q == pools[task[t].addr]
       IN  IF IsFull(q)
           THEN /\ pools' = pools
                /\ last_return' = "full"
           ELSE /\ pools' = WithQueue(task[t].addr, Append(q, PooledConnection(task[t].stream)))
                /\ last_return' = "pushed"
    /\ active_connections' = active_connections - 1
    /\ task' = [task EXCEPT ![t].pc = "idle", ![t].stream = NoStream,
                            ![t].keep_alive = FALSE]
    /\ UNCHANGED <<NotPool, pool_config, now, Sweep, total_connections, reused_connections,
                   connection_hits, connection_misses, get_calls, opened_at, last_hit>>

\* time passes
Tick ==
    /\ cleanup_pc # "off"
    /\ now < MaxTime
    /\ now' = now + 1
    /\ UNCHANGED <<NotPool, pool_config, pools, task, Sweep, Counters, get_calls, opened_at,
                   Hits>>

NoExpiredLeft(p) == \A h \in DOMAIN p : \A i \in 1..Len(p[h]) : ~Expired(p[h][i])
NoEmptyKeyLeft(p) == \A h \in DOMAIN p : p[h] # <<>>

\* the for loop moves on: the iterator yields the entry of some key left,
\* whose shard its RefMulti holds read-locked, and the task awaits the
\* queue's lock; or the iterator is exhausted and the sweep returns
SweepAdvance(left, p) ==
    IF left = {}
    THEN /\ cleanup_pc' = "idle"
         /\ sweep_clean' = (NoExpiredLeft(p) /\ NoEmptyKeyLeft(p))
         /\ UNCHANGED <<cleanup_remaining, cleanup_addr>>
    ELSE /\ \E addr \in left :
              /\ cleanup_addr' = addr
              /\ cleanup_remaining' = left \ {addr}
         /\ cleanup_pc' = "s_lock"
         /\ UNCHANGED sweep_clean

\* interval.tick().await returns: cleanup_expired_connections starts
SweepStart ==
    /\ cleanup_pc = "idle"
    /\ SweepAdvance(DOMAIN pools, pools)
    /\ UNCHANGED <<NotPool, pool_config, pools, now, task, Counters, get_calls, opened_at,
                   Hits>>

\* under the lock: retain; when the queue is left with entries, on to the next
\* entry
SweepRetain ==
    /\ cleanup_pc = "s_lock"
    /\ retain(pools[cleanup_addr]) # <<>>
    /\ pools' = WithQueue(cleanup_addr, retain(pools[cleanup_addr]))
    /\ SweepAdvance(cleanup_remaining, pools')
    /\ UNCHANGED <<NotPool, pool_config, now, task, Counters, get_calls, opened_at, Hits>>

\* under the lock: retain leaves the queue empty; drop(pool_guard), then
\* pools.remove(&addr) asks for the write lock of the shard that the entry of
\* this very iteration holds read-locked, and waits for ever
SweepRemove ==
    /\ cleanup_pc = "s_lock"
    /\ retain(pools[cleanup_addr]) = <<>>
    /\ pools' = WithQueue(cleanup_addr, <<>>)
    /\ cleanup_pc' = "blocked"
    /\ UNCHANGED <<NotPool, pool_config, now, task, cleanup_remaining, cleanup_addr,
                   sweep_clean, Counters, get_calls, opened_at, Hits>>

PoolNext ==
    \/ \E t \in Tasks : GetLookup(t)
    \/ \E t \in Tasks : GetPop(t)
    \/ \E t \in Tasks : GetConnectOk(t)
    \/ \E t \in Tasks : GetConnectErr(t)
    \/ \E t \in Tasks : ReturnDiscard(t)
    \/ \E t \in Tasks : ReturnEntry(t)
    \/ \E t \in Tasks : ReturnPush(t)
    \/ Tick
    \/ SweepStart
    \/ SweepRetain
    \/ SweepRemove

PoolInit ==
    /\ ReaderIdle /\ build = "none" /\ request = NoRequest /\ ScanIdle /\ FrameIdle
    /\ PoolStart /\ CacheIdle /\ GlobalIdle /\ EmitIdle /\ SplitIdle

SpecPool == PoolInit /\ [][PoolNext]_vars

-----------------------------------------------------------------------------
(* Claims about the connection pool, under SpecPool *)

\* the streams in the queues of the map, and how often stream s is owned
PooledStreams ==
    UNION {{pools[h][i].stream : i \in 1..Len(pools[h])} : h \in DOMAIN pools} \ {NoStream}
TimesQueued(s) ==
    Cardinality({<<h, i>> \in (DOMAIN pools) \X (1..(MaxCalls + 1)) :
                     i <= Len(pools[h]) /\ pools[h][i].stream = s})
TimesHeld(s) == Cardinality({t \in Tasks : task[t].stream = s})

\* some task completes a return_connection call in this step
ReturnEnds(t) ==
    /\ task[t].stream # NoStream /\ task[t].pc \in {"idle", "r_lock"}
    /\ task'[t].stream = NoStream /\ task'[t].pc = "idle"

\* C12: whatever the interleaving of return_connection, get_connection and
\* the sweep, each host's queue holds at most max_connections_per_host
\* connections; a return_connection that finds the queue at that size
\* drops the connection and leaves the queues as they were.
C12_QueueNeverExceedsMax ==
    /\ [](\A h \in DOMAIN pools : Len(pools[h]) <= pool_config.max_connections_per_host)
    /\ [][\A t \in Tasks :
            (/\ ReturnEnds(t) /\ task[t].pc = "r_lock"
             /\ Len(pools[task[t].addr]) >= pool_config.max_connections_per_host)
                => (pools' = pools /\ task[t].stream \notin PooledStreams')]_vars

\* a connection was returned to a queue that held max_connections_per_host
\* connections, and was dropped
C12_Witness ==
    /\ last_return = "full"
    /\ pool_config.max_connections_per_host >= 1
    /\ \E h \in DOMAIN pools : Len(pools[h]) = pool_config.max_connections_per_host

\* C13: get_connection returns no pooled connection whose idle time exceeds
\* max_idle_time, also when no sweep has removed it from the queue: the entry
\* is dropped at pop time and the call goes on to the next entry or to a new
\* connection.
C13_NoIdleExpiredHit ==
    last_hit # NoHit => last_hit.idle <= pool_config.max_idle_time

\* a hit that came after an expired entry had been popped and dropped
C13_Witness ==
    /\ last_hit # NoHit /\ last_hit.skipped >= 1
    /\ last_hit.idle <= pool_config.max_idle_time

\* C14: get_connection returns no connection once the time since it was
\* first opened exceeds max_lifetime, however often it went through the pool.
C14_NoLifetimeExpiredHit ==
    last_hit # NoHit => last_hit.age <= pool_config.max_lifetime

\* C15: under any interleaving of get_connection and return_connection for
\* one host, a pooled connection is handed to at most one caller, and no
\* connection is in a queue and held by a caller at the same time.
C15_OneOwner ==
    \A s \in 1..Len(opened_at) : TimesQueued(s) + TimesHeld(s) <= 1

\* two get_connection calls went for one pooled connection: one call got it,
\* the other found the queue empty and opens a connection
C15_Witness ==
    /\ connection_hits = 1 /\ connection_misses = 2
    /\ \E t \in Tasks, u \in Tasks :
           /\ task[t].pc = "idle" /\ task[t].stream # NoStream
           /\ task[u].pc = "g_connect" /\ task[u].addr = task[t].addr
    /\ \A h \in DOMAIN pools : pools[h] = <<>>

\* C16: every sweep runs to completion, and when it finishes no queue holds
\* an expired connection and no host with an empty queue is left in the map,
\* also in the sweep in which a queue becomes empty.
C16_SweepCompletesClean ==
    cleanup_pc # "blocked" /\ sweep_clean

\* C17: return_connection with keep_alive = false, or on a pool whose
\* configuration has keep-alive off (the disabled preset among them), leaves
\* every queue and the set of host keys as they were; the connection is
\* dropped and get_connection never finds it.
C17_DiscardLeavesPoolAlone ==
    /\ [][\A t \in Tasks : (ReturnEnds(t) /\ task[t].pc = "idle") => pools' = pools]_vars
    /\ [](\A t \in Tasks :
              task[t].pc = "r_lock" => (task[t].keep_alive /\ pool_config.enable_keep_alive))
    /\ [](~pool_config.enable_keep_alive => (DOMAIN pools = {} /\ connection_hits = 0))

\* a connection was discarded by a pool with the disabled preset
C17_Witness ==
    /\ pool_config = disabled
    /\ last_return = "discarded"
    /\ PooledStreams = {}

\* C18: connection_hits + connection_misses is the number of get_connection
\* calls made (a call that still waits for the queue's lock has recorded
\* neither); each hit is one reuse and no miss, each miss is one total
\* connection and no hit.
C18_HitsPlusMissesAreCalls ==
    /\ connection_hits + connection_misses
           + Cardinality({t \in Tasks : task[t].pc = "g_lock"}) = get_calls
    /\ reused_connections = connection_hits
    /\ total_connections = connection_misses

\* every call has returned: two opened a connection, one reused a pooled one
C18_Witness ==
    /\ \A t \in Tasks : task[t].pc = "idle"
    /\ get_calls = MaxCalls
    /\ connection_hits >= 1 /\ connection_misses >= 2

\* the connections get_connection has handed out and return_connection has
\* not been given
HandedOut == {t \in Tasks : task[t].stream # NoStream}

\* C35: after any sequence of get_connection and return_connection calls,
\* active_connections is the number of connections handed out (opened or
\* reused) and not yet returned, and the unsigned counter never wraps below
\* zero, in particular when a reused connection is returned.
C35_ActiveCountsHandedOut ==
    /\ active_connections >= 0
    /\ (\A t \in Tasks : task[t].pc = "idle")
           => active_connections = Cardinality(HandedOut)

\* the sweep has emptied the queue of addr and is in pools.remove(&addr)
SweepRemoves(addr) == cleanup_pc = "blocked" /\ cleanup_addr = addr

\* C36: under any interleaving of return_connection with the cleanup sweep,
\* a connection returned with keep_alive = true while the host's queue is
\* below max_connections_per_host ends up in the queue the pool map holds
\* for that host, and is never pushed into a queue that the sweep has
\* removed or is about to remove from the map.
C36_PushedIntoMappedQueue ==
    [][\A t \in Tasks :
          (/\ task[t].pc = "r_lock" /\ ReturnEnds(t)
           /\ ~IsFull(pools[task[t].addr]))
              => /\ task[t].addr \in DOMAIN pools'
                 /\ task[t].stream \in PooledStreams'
                 /\ ~SweepRemoves(task[t].addr)]_vars

-----------------------------------------------------------------------------
(* The file cache: src/src/helpers/traits/zero_copy.rs                      *)
(*                                                                          *)
(* ZeroCopyCache::load_file, called by one caller after another.  Sizes     *)
(* are bytes and times are ticks.  SystemTime::now() is read as a clock     *)
(* that is not set back and whose successive readings differ: every call    *)
(* that stamps an entry moves the clock on.  The order in which             *)
(* DashMap::iter yields entries is not fixed, so where min_by_key meets     *)
(* several entries of the same time any of them may be the one it returns.  *)

MaxClock == 5

Paths == {"p1", "p2", "p3", "p4"}

\* std::fs::metadata(path).len(), which is the length std::fs::read returns
FileSize == [p \in Paths |-> CASE p = "p1" -> 1 [] p = "p2" -> 1 [] p = "p3" -> 2 [] OTHER -> 3]

CacheConfigs ==
    { [max_cache_files |-> 2, max_cache_file_size |-> 2, total_cache_size_limit |-> 4,
       cache_duration |-> 1],
      [max_cache_files |-> 3, max_cache_file_size |-> 2, total_cache_size_limit |-> 3,
       cache_duration |-> 2],
      [max_cache_files |-> 2, max_cache_file_size |-> 3, total_cache_size_limit |-> 2,
       cache_duration |-> 2],
      [max_cache_files |-> 0, max_cache_file_size |-> 2, total_cache_size_limit |-> 3,
       cache_duration |-> 1] }

\* ZeroCopyCache::from_config
CacheStart ==
    /\ cache_config \in CacheConfigs
    /\ memory_cache = NoFiles
    /\ system_time = 0
    /\ cache_pc = "ready"
    /\ access_log = <<>>
    /\ last_load = NoLoad
    /\ last_sweep = NoSweep
    /\ loader = NoLoader

NotCache == <<readerVars, build, scanVars, request, frameVars, poolVars, globalVars,
             emitVars, splitVars>>

\* CachedFileData::new(data, path)
CachedFileData(size) == [last_accessed |-> system_time, original_size |-> size]

\* CachedFileData::update_access_time
update_access_time_Mut(entry) == entry
update_access_time(entry) == [entry EXCEPT !.last_accessed = system_time]

\* cache.iter().map(|f| f.original_size).sum()
RECURSIVE TotalSize(_)
TotalSize(cache) ==
    IF DOMAIN cache = {} THEN 0
    ELSE LET p == CHOOSE q \in DOMAIN cache : TRUE
         IN  cache[p].original_size + TotalSize([q \in DOMAIN cache \ {p} |-> cache[q]])

\* DashMap::remove, DashMap::insert
remove(cache, path) == [q \in DOMAIN cache \ {path} |-> cache[q]]
insert(cache, path, entry) ==
    [q \in DOMAIN cache \cup {path} |-> IF q = path THEN entry ELSE cache[q]]

\* cache.iter().min_by_key(|file| file.last_accessed()): the entries it may
\* return
min_by_key(cache) ==
    {p \in DOMAIN cache : \A q \in DOMAIN cache : cache[p].last_accessed <= cache[q].last_accessed}

\* ensure_cache_capacity, its first loop: while cache.len() >= max_cache_files,
\* evict_oldest_from_cache.  The runs of the loop that end, each as the cache
\* left and the paths evicted.  On an empty cache evict_oldest_from_cache
\* returns None and the loop goes round again: with max_cache_files = 0 no
\* run ends.
RECURSIVE CountLoop(_, _)
CountLoop(cache, evicted) ==
    IF Cardinality(DOMAIN cache) >= cache_config.max_cache_files
    THEN IF DOMAIN cache = {}
         THEN {}
         ELSE UNION {CountLoop(remove(cache, p), Append(evicted, p)) : p \in min_by_key(cache)}
    ELSE {[cache |-> cache, evicted |-> evicted]}

\* its second loop: while remaining_size > total_cache_size_limit &&
\* !cache.is_empty()
SizeLoopCond(cache, remaining_size) ==
    remaining_size > cache_config.total_cache_size_limit /\ DOMAIN cache # {}

RECURSIVE SizeLoop(_, _, _)
SizeLoop(cache, evicted, remaining_size) ==
    IF SizeLoopCond(cache, remaining_size)
    THEN UNION {SizeLoop(remove(cache, p), Append(evicted, p),
                         remaining_size - cache[p].original_size) : p \in min_by_key(cache)}
    ELSE {[cache |-> cache, evicted |-> evicted]}

ensure_cache_capacity(cache, new_file_size) ==
    UNION {SizeLoop(r.cache, r.evicted, TotalSize(r.cache) + new_file_size) :
               r \in CountLoop(cache, <<>>)}

\* load_file: file_size <= self.max_cache_file_size
IsSmall_Mut(file_size) == file_size < cache_config.max_cache_file_size
IsSmall_Limit(file_size) == file_size <= cache_config.total_cache_size_limit
IsSmall(file_size) == file_size <= cache_config.max_cache_file_size

\* the call read the clock; the next reading is a later one
ClockRead == system_time' = system_time + 1

\* load_file of a file above max_cache_file_size: ZeroCopyFile::new, no cache
LoadLarge(path) ==
    /\ cache_pc = "ready"
    /\ ~IsSmall(FileSize[path])
    /\ last_load' = [path |-> path, kind |-> "mmap", before |-> memory_cache, evicted |-> <<>>]
    /\ UNCHANGED <<NotCache, loader, cache_config, memory_cache, system_time, cache_pc, access_log,
                   last_sweep>>

\* load_file, load_from_memory_cache: the path is cached
LoadHit(path) ==
    /\ cache_pc = "ready" /\ system_time < MaxClock
    /\ IsSmall(FileSize[path])
    /\ path \in DOMAIN memory_cache
    /\ memory_cache' = [memory_cache EXCEPT ![path] = update_access_time(@)]
    /\ ClockRead
    /\ access_log' = Append(access_log, path)
    /\ last_load' = [path |-> path, kind |-> "hit", before |-> memory_cache, evicted |-> <<>>]
    /\ UNCHANGED <<NotCache, loader, cache_config, cache_pc, last_sweep>>

\* load_file, load_from_memory_cache: the path is not cached; read the file,
\* ensure_cache_capacity, insert
LoadMiss(path) ==
    /\ cache_pc = "ready" /\ system_time < MaxClock
    /\ IsSmall(FileSize[path])
    /\ path \notin DOMAIN memory_cache
    /\ \E r \in ensure_cache_capacity(memory_cache, FileSize[path]) :
          /\ memory_cache' = insert(r.cache, path, CachedFileData(FileSize[path]))
          /\ last_load' = [path |-> path, kind |-> "miss", before |-> memory_cache,
                           evicted |-> r.evicted]
    /\ ClockRead
    /\ access_log' = Append(access_log, path)
    /\ UNCHANGED <<NotCache, loader, cache_config, cache_pc, last_sweep>>

\* the same, when no run of ensure_cache_capacity ends: the call never returns
LoadSpin(path) ==
    /\ cache_pc = "ready"
    /\ IsSmall(FileSize[path])
    /\ path \notin DOMAIN memory_cache
    /\ ensure_cache_capacity(memory_cache, FileSize[path]) = {}
    /\ cache_pc' = "spinning"
    /\ UNCHANGED <<NotCache, loader, cache_config, memory_cache, system_time, access_log, last_load,
                   last_sweep>>

\* now.duration_since(last_accessed).unwrap_or_default() > cache_duration
IsStale_Mut(entry) ==
    (IF system_time >= entry.last_accessed THEN system_time - entry.last_accessed ELSE 0)
        >= cache_config.cache_duration
IsStale(entry) ==
    (IF system_time >= entry.last_accessed THEN system_time - entry.last_accessed ELSE 0)
        > cache_config.cache_duration

\* cleanup_expired
CleanupExpired ==
    /\ cache_pc = "ready"
    /\ memory_cache' = [p \in {q \in DOMAIN memory_cache : ~IsStale(memory_cache[q])}
                            |-> memory_cache[p]]
    /\ last_sweep' = [ran |-> TRUE, before |-> memory_cache, now |-> system_time]
    /\ UNCHANGED <<NotCache, loader, cache_config, system_time, cache_pc, access_log, last_load>>

\* time passes between calls
ClockTick ==
    /\ cache_pc = "ready" /\ system_time < MaxClock
    /\ system_time' = system_time + 1
    /\ UNCHANGED <<NotCache, loader, cache_config, memory_cache, cache_pc, access_log, last_load,
                   last_sweep>>

CacheNext ==
    \/ \E path \in Paths : LoadLarge(path)
    \/ \E path \in Paths : LoadHit(path)
    \/ \E path \in Paths : LoadMiss(path)
    \/ \E path \in Paths : LoadSpin(path)
    \/ CleanupExpired
    \/ ClockTick

CacheInit ==
    /\ ReaderIdle /\ build = "none" /\ request = NoRequest /\ ScanIdle /\ FrameIdle
    /\ PoolIdle /\ CacheStart /\ GlobalIdle /\ EmitIdle /\ SplitIdle

SpecCache == CacheInit /\ [][CacheNext]_vars

\* C37: load_file terminates for every cache configuration and every cache
\* content: no call stays in the eviction loops of ensure_cache_capacity,
\* also when max_cache_files is 0, when the cache is empty, and when the new
\* file alone is larger than total_cache_size_limit.
C37_LoadFileTerminates == cache_pc # "spinning"

-----------------------------------------------------------------------------
(* load_file called by several tasks on one cache.  memory_cache is a       *)
(* DashMap: each of its operations is atomic, a sequence of them is not.    *)

\* load_from_memory_cache: get_mut found nothing, the file was read and
\* CachedFileData::new stamped it
MissLookup(t, path) ==
    /\ cache_pc = "ready" /\ system_time < MaxClock
    /\ loader[t].pc = "idle"
    /\ IsSmall(FileSize[path])
    /\ path \notin DOMAIN memory_cache
    /\ loader' = [loader EXCEPT ![t] = [pc |-> "ensure", path |-> path,
                                         made |-> system_time, left |-> NoFiles]]
    /\ ClockRead
    /\ UNCHANGED <<NotCache, cache_config, memory_cache, cache_pc, access_log, last_load,
                   last_sweep>>

\* self.ensure_cache_capacity(self.memory_cache.clone(), file_size); a call
\* whose loops never end stays in it
MissEnsure(t) ==
    /\ loader[t].pc = "ensure"
    /\ LET runs == ensure_cache_capacity(memory_cache, FileSize[loader[t].path])
       IN  IF runs = {}
           THEN /\ loader' = [loader EXCEPT ![t].pc = "spinning"]
                /\ UNCHANGED memory_cache
           ELSE \E r \in runs :
                    /\ memory_cache' = r.cache
                    /\ loader' = [loader EXCEPT ![t].pc = "insert", ![t].left = r.cache]
    /\ UNCHANGED <<NotCache, cache_config, system_time, cache_pc, access_log, last_load,
                   last_sweep>>

\* self.memory_cache.insert(path_buf, cached_data)
MissInsert(t) ==
    /\ loader[t].pc = "insert"
    /\ memory_cache' = insert(memory_cache, loader[t].path,
                              [last_accessed |-> loader[t].made,
                               original_size |-> FileSize[loader[t].path]])
    /\ access_log' = Append(access_log, loader[t].path)
    /\ loader' = [loader EXCEPT ![t] = NoLoader[t]]
    /\ UNCHANGED <<NotCache, cache_config, system_time, cache_pc, last_load, last_sweep>>

LoadersNext ==
    \/ \E t \in Tasks, path \in Paths : MissLookup(t, path)
    \/ \E t \in Tasks : MissEnsure(t)
    \/ \E t \in Tasks : MissInsert(t)

SpecLoaders == CacheInit /\ [][LoadersNext]_vars

\* C34: under any interleaving of concurrent load_file calls on one cache the
\* capacity check, the evictions and the insertion of one call are one atomic
\* step with respect to the other calls: a call inserts into the cache as its
\* own evictions left it, and the file-count and byte limits hold when
\* several tasks miss at the same time.  The byte limit is stated for caches
\* whose files each fit the limit.
C34_LoadIsAtomic ==
    /\ \A t \in Tasks : loader[t].pc = "insert" => memory_cache = loader[t].left
    /\ Cardinality(DOMAIN memory_cache) <= cache_config.max_cache_files
    /\ (\A p \in DOMAIN memory_cache :
            memory_cache[p].original_size <= cache_config.total_cache_size_limit)
           => TotalSize(memory_cache) <= cache_config.total_cache_size_limit

-----------------------------------------------------------------------------
(* Claims about the file cache, under SpecCache *)

\* C19: after every load_file that returns, whatever the configuration and
\* the calls before it, the memory cache holds at most max_cache_files
\* entries and at most total_cache_size_limit bytes.
C19_CacheWithinLimits ==
    (cache_pc = "ready" /\ last_load.kind # "none")
        => /\ Cardinality(DOMAIN memory_cache) <= cache_config.max_cache_files
           /\ TotalSize(memory_cache) <= cache_config.total_cache_size_limit

\* the position in access_log of the last access to path, 0 when there is none
LastAccess(path) ==
    LET at == {i \in 1..Len(access_log) : access_log[i] = path}
    IN  IF at = {} THEN 0 ELSE CHOOSE i \in at : \A j \in at : j <= i
FirstAccess(path) ==
    LET at == {i \in 1..Len(access_log) : access_log[i] = path}
    IN  IF at = {} THEN 0 ELSE MinOf(at)

\* the cache the last load_file found, less the first k - 1 entries it evicted
BeforeEviction(k) ==
    [p \in DOMAIN last_load.before \ {last_load.evicted[j] : j \in 1..(k - 1)}
         |-> last_load.before[p]]

\* a new entry of new_file_size bytes fits into cache
Fits(cache, new_file_size) ==
    /\ Cardinality(DOMAIN cache) < cache_config.max_cache_files
    /\ TotalSize(cache) + new_file_size <= cache_config.total_cache_size_limit

\* C20: each entry load_file evicts has the smallest last_accessed of the
\* entries cached at that moment, and is evicted only while the new entry
\* does not fit; as a hit refreshes last_accessed, no entry is evicted while
\* an entry whose last access came earlier is still cached.
C20_EvictsLeastRecentlyAccessed ==
    last_load.kind = "miss" =>
        \A k \in 1..Len(last_load.evicted) :
            LET cache == BeforeEviction(k)
                gone  == last_load.evicted[k]
            IN  /\ gone \in DOMAIN cache
                /\ \A q \in DOMAIN cache : cache[gone].last_accessed <= cache[q].last_accessed
                /\ ~Fits(cache, FileSize[last_load.path])
                /\ \A q \in DOMAIN cache : LastAccess(gone) <= LastAccess(q)

\* a load evicted an entry and kept one that was inserted before it and hit
\* after it
C20_Witness ==
    /\ last_load.kind = "miss" /\ last_load.evicted # <<>>
    /\ \E kept \in DOMAIN memory_cache \ {last_load.path} :
           LET gone == last_load.evicted[1]
           IN  /\ FirstAccess(kept) < FirstAccess(gone)
               /\ LastAccess(gone) < LastAccess(kept)
    /\ Fits(BeforeEviction(Len(last_load.evicted) + 1), FileSize[last_load.path])

\* C21: load_file returns a memory-cache result exactly when the file's size
\* is at most max_cache_file_size, a file of exactly that size included, and
\* a memory-mapped result exactly when it is larger.
C21_ThresholdSplit ==
    last_load.kind # "none" =>
        /\ last_load.kind \in {"hit", "miss"}
               <=> FileSize[last_load.path] <= cache_config.max_cache_file_size
        /\ last_load.kind = "mmap"
               <=> FileSize[last_load.path] > cache_config.max_cache_file_size

\* a file of exactly max_cache_file_size bytes came back from the memory
\* cache, and a file one byte larger would be mapped
C21_Witness ==
    /\ last_load.kind = "miss"
    /\ FileSize[last_load.path] = cache_config.max_cache_file_size
    /\ last_load.path \in DOMAIN memory_cache
    /\ \E p \in Paths : FileSize[p] = cache_config.max_cache_file_size + 1

\* a step that is a load_file call for path
IsLoadOf(path) ==
    /\ last_load'.path = path
    /\ last_load' # last_load \/ access_log' # access_log

\* C22: load_file on a file larger than max_cache_file_size leaves the memory
\* cache as it was: no entry added, none evicted, no access time changed,
\* however many large files are loaded.
C22_LargeFileLeavesCacheAlone ==
    [][\A path \in Paths :
          (IsLoadOf(path) /\ FileSize[path] > cache_config.max_cache_file_size)
              => (memory_cache' = memory_cache /\ access_log' = access_log)]_vars

\* a large file was loaded while the cache was at its file-count limit, and
\* the cache is as the call found it
C22_Witness ==
    /\ last_load.kind = "mmap"
    /\ FileSize[last_load.path] > cache_config.max_cache_file_size
    /\ Cardinality(DOMAIN memory_cache) = cache_config.max_cache_files
    /\ memory_cache # NoFiles
    /\ memory_cache = last_load.before

\* C23: when cleanup_expired returns, no entry whose last access is more than
\* cache_duration ago is cached, and every entry accessed within
\* cache_duration is still cached, unchanged, be the cache at a limit or not.
C23_SweepRemovesExactlyTheStale ==
    [][last_sweep' # last_sweep =>
          /\ DOMAIN memory_cache' \subseteq DOMAIN memory_cache
          /\ \A p \in DOMAIN memory_cache :
                IF system_time - memory_cache[p].last_accessed > cache_config.cache_duration
                THEN p \notin DOMAIN memory_cache'
                ELSE p \in DOMAIN memory_cache' /\ memory_cache'[p] = memory_cache[p]]_vars

\* a sweep found the cache at its file-count limit, removed an entry and
\* kept one
C23_Witness ==
    /\ last_sweep.ran
    /\ Cardinality(DOMAIN last_sweep.before) = cache_config.max_cache_files
    /\ \E gone \in DOMAIN last_sweep.before, kept \in DOMAIN last_sweep.before :
          /\ last_sweep.now - last_sweep.before[gone].last_accessed > cache_config.cache_duration
          /\ last_sweep.now - last_sweep.before[kept].last_accessed <= cache_config.cache_duration
          /\ gone \notin DOMAIN memory_cache
          /\ kept \in DOMAIN memory_cache /\ memory_cache[kept] = last_sweep.before[kept]

-----------------------------------------------------------------------------
(* The process-wide instances: GLOBAL_CACHE (zero_copy.rs) and              *)
(* GLOBAL_CONNECTION_POOL (connection_pool.rs), both a std OnceLock.        *)
(*                                                                          *)
(* OnceLock::set and OnceLock::get_or_init each act at one moment with      *)
(* respect to every other call on the cell (get_or_init runs its closure    *)
(* under the cell's Once); init_global constructs its instance before it    *)
(* calls set, and other tasks may run in between.  An instance is the       *)
(* ordinal of its construction.                                             *)

MaxInstances == 3

GlobalStart ==
    /\ global_cell = [k \in Kinds |-> Unset]
    /\ created = [k \in Kinds |-> 0]
    /\ gtask = [t \in Tasks |-> [pc |-> "idle", kind |-> "cache", instance |-> Unset]]
    /\ observed = [k \in Kinds |-> {}]
    /\ set_refused = {}

NotGlobal == <<readerVars, build, scanVars, request, frameVars, poolVars, cacheVars,
              emitVars, splitVars>>

\* OnceLock::set(value): the cell afterwards
set_Mut(cell, value) == value
set(cell, value) == IF cell = Unset THEN value ELSE cell

\* init_global, up to the call of set: Self::from_config(config), or
\* ConnectionPool::new(config) and start_cleanup_task
InitGlobalConstruct(t) ==
    /\ gtask[t].pc = "idle"
    /\ \E k \in Kinds :
          /\ created[k] < MaxInstances
          /\ created' = [created EXCEPT ![k] = @ + 1]
          /\ gtask' = [gtask EXCEPT ![t] = [pc |-> "set", kind |-> k,
                                            instance |-> created[k] + 1]]
    /\ UNCHANGED <<NotGlobal, global_cell, observed, set_refused>>

\* init_global: GLOBAL.set(instance); Err when the cell is set already, which
\* the cache reports and the pool ignores; the instance refused is dropped
InitGlobalSet(t) ==
    /\ gtask[t].pc = "set"
    /\ LET k == gtask[t].kind
       IN  /\ global_cell' = [global_cell EXCEPT ![k] = set(@, gtask[t].instance)]
           /\ set_refused' = IF global_cell[k] = Unset THEN set_refused
                             ELSE set_refused \cup {k}
    /\ gtask' = [gtask EXCEPT ![t] = [pc |-> "idle", kind |-> @.kind, instance |-> Unset]]
    /\ UNCHANGED <<NotGlobal, created, observed>>

\* global(): GLOBAL.get_or_init(|| default instance)
Global(t) ==
    /\ gtask[t].pc = "idle"
    /\ \E k \in Kinds :
          IF global_cell[k] = Unset
          THEN /\ created[k] < MaxInstances
               /\ created' = [created EXCEPT ![k] = @ + 1]
               /\ global_cell' = [global_cell EXCEPT ![k] = created[k] + 1]
               /\ observed' = [observed EXCEPT ![k] = @ \cup {created[k] + 1}]
          ELSE /\ observed' = [observed EXCEPT ![k] = @ \cup {global_cell[k]}]
               /\ UNCHANGED <<created, global_cell>>
    /\ UNCHANGED <<NotGlobal, gtask, set_refused>>

GlobalNext ==
    \/ \E t \in Tasks : InitGlobalConstruct(t)
    \/ \E t \in Tasks : InitGlobalSet(t)
    \/ \E t \in Tasks : Global(t)

GlobalInit ==
    /\ ReaderIdle /\ build = "none" /\ request = NoRequest /\ ScanIdle /\ FrameIdle
    /\ PoolIdle /\ CacheIdle /\ GlobalStart /\ EmitIdle /\ SplitIdle

SpecGlobal == GlobalInit /\ [][GlobalNext]_vars

\* C24: under any interleaving of global and init_global, for the cache and
\* for the pool, one instance becomes the global one, every caller of global
\* gets that instance, and no later init_global replaces it.
C24_OneGlobalInstance ==
    /\ [](\A k \in Kinds :
             /\ Cardinality(observed[k]) <= 1
             /\ observed[k] # {} => observed[k] = {global_cell[k]})
    /\ [][\A k \in Kinds : global_cell[k] # Unset => global_cell'[k] = global_cell[k]]_vars

\* two tasks raced to initialise one kind: one set was refused, global() has
\* returned the instance of the other, and more instances were constructed
\* than the one that is global
C24_Witness ==
    \E k \in Kinds :
        /\ k \in set_refused
        /\ observed[k] = {global_cell[k]}
        /\ created[k] >= 2
        /\ \A t \in Tasks : gtask[t].pc = "idle"

-----------------------------------------------------------------------------
(* Writing the response: the handler's calls on the Response, responser,   *)
(* responser_arena and SendBytes.  What goes to the socket is a sequence   *)
(* of units: the status line, a header line, the content-length line, the  *)
(* blank line, and one unit per body byte.                                 *)

MaxBody == 1

Features == [response_file : BOOLEAN, vectored_io : BOOLEAN]

\* the files response_file may name: none at that path, one within the
\* zero-copy threshold, one above it, one above it on which a read fails
\* after fail_at bytes
Files ==
    { [kind |-> "missing", size |-> 0, fail_at |-> NONE],
      [kind |-> "small", size |-> 2, fail_at |-> NONE],
      [kind |-> "large", size |-> 2, fail_at |-> NONE],
      [kind |-> "large", size |-> 2, fail_at |-> 1] }

HandlerStatuses == {404}

NotEmit == <<readerVars, build, scanVars, request, frameVars, poolVars, cacheVars,
             globalVars, splitVars>>

\* the Writer, and the TcpStream in it, exist
HoldsStream(resp) == resp.made

\* *response.status_mut() = s
SetStatus ==
    /\ HoldsStream(response) /\ emit_pc = "open"
    /\ response.set_status = NONE
    /\ \E s \in HandlerStatuses :
           response' = [response EXCEPT !.status = s, !.set_status = s]
    /\ UNCHANGED <<NotEmit, features, file, writes, wire, emit_pc>>

\* response.body_mut().body = text, or set_arena_response(text)
SetBody ==
    /\ HoldsStream(response) /\ emit_pc = "open"
    /\ response.body = 0 /\ ~response.use_file
    /\ \E n \in 1..MaxBody : response' = [response EXCEPT !.body = n, !.tag = "text"]
    /\ UNCHANGED <<NotEmit, features, file, writes, wire, emit_pc>>

\* response.body_mut().bytes = bytes
SetBytes ==
    /\ HoldsStream(response) /\ emit_pc = "open"
    /\ response.writer = "Writer" /\ response.bytes = 0
    /\ \E n \in 1..MaxBody : response' = [response EXCEPT !.bytes = n]
    /\ UNCHANGED <<NotEmit, features, file, writes, wire, emit_pc>>

\* Writer::response_file and ArenaWriter::response_file, on a path that
\* leads to f
ResponseFile ==
    /\ HoldsStream(response) /\ emit_pc = "open"
    /\ features.response_file /\ ~response.use_file
    /\ \E f \in Files :
        /\ file' = f
        /\ response' = [response EXCEPT
               !.body = 1,
               !.tag = IF f.kind = "small" THEN "zero_copy" ELSE "path",
               !.use_file = TRUE]
    /\ UNCHANGED <<NotEmit, features, writes, wire, emit_pc>>

Unit(u, v) == [unit |-> u, value |-> v]

\* n body bytes
BodyUnits(n) == [j \in 1..n |-> Unit("body", j)]

\* cfg!(feature = "response_file") && self.body().use_file
UseFile(resp) == features.response_file /\ resp.use_file

\* format!("{:?} {}\r\n", self.version(), self.status()), after the status
\* was set to 200 for a file
status_line(resp) == Unit("status", IF UseFile(resp) THEN OK ELSE resp.status)

\* for (key, value) in self.headers(): the content-type header the response
\* was built with
ResponseHeaders == <<Unit("header", 0)>>

\* get_body: the content-length line of a body string
get_body(n) == Unit("cl", n)

\* status line, Content-Type of the file, content-length, blank line; the
\* response's own content-type header was removed
FileHead(resp, size) ==
    <<status_line(resp), Unit("header", 1), Unit("cl", size), Unit("blank", 0)>>

Emitted(bufs) == [ok |-> TRUE, bufs |-> bufs]

\* send_zero_copy_file and send_arena_zero_copy_file
send_zero_copy_file(resp) ==
    IF features.vectored_io
    THEN Emitted(<<FileHead(resp, file.size) \o BodyUnits(file.size)>>)
    ELSE Emitted(<<FileHead(resp, file.size), BodyUnits(file.size)>>)

\* the file branch for a plain path: open, metadata, the head, then
\* `while let Ok(len) = reader.read(..)`, one send_bytes per byte read
stream_file(resp) ==
    IF file.kind = "missing" THEN [ok |-> FALSE, bufs |-> <<>>]
    ELSE LET read == IF file.fail_at = NONE THEN file.size ELSE file.fail_at
         IN  Emitted(<<FileHead(resp, file.size)>>
                         \o [j \in 1..read |-> <<Unit("body", j)>>])

\* the buffers responser hands to the socket
responser(resp) ==
    IF UseFile(resp)
    THEN IF resp.tag = "zero_copy" THEN send_zero_copy_file(resp) ELSE stream_file(resp)
    ELSE IF resp.bytes > 0
    THEN Emitted(<< <<status_line(resp)>> \o ResponseHeaders \o <<Unit("blank", 0)>>
                        \o BodyUnits(resp.bytes) >>)
    ELSE Emitted(<< <<status_line(resp), get_body(resp.body)>> \o ResponseHeaders
                        \o <<Unit("blank", 0)>> \o BodyUnits(resp.body) >>)

\* the buffers responser_arena hands to the socket
responser_arena(resp) ==
    LET head == <<status_line(resp)>> \o ResponseHeaders
                    \o <<Unit("cl", resp.body), Unit("blank", 0)>>
    IN  IF UseFile(resp)
        THEN IF resp.body > 0
             THEN IF resp.tag = "zero_copy" THEN send_zero_copy_file(resp)
                  ELSE stream_file(resp)
             ELSE Emitted(<<>>)
        ELSE IF resp.body > 0
        THEN IF features.vectored_io THEN Emitted(<<head \o BodyUnits(resp.body)>>)
             ELSE Emitted(<<head, BodyUnits(resp.body)>>)
        ELSE Emitted(<<head>>)

\* the first k units of buf, numbered from base + 1 on
Stamp(buf, base, k) ==
    [j \in 1..k |-> [serial |-> base + j, unit |-> buf[j].unit, value |-> buf[j].value]]

\* AsyncWriteExt::write_all
write_all_Mut(w, buf, base) == Stamp(buf, base, Len(buf)) \o w

write_all(w, buf, base) == w \o Stamp(buf, base, Len(buf))

\* AsyncWriteExt::write_vectored, called once: the socket takes k units
write_vectored(w, buf, base, k) == w \o Stamp(buf, base, k)

\* SendBytes::send_bytes and send_vectored
send_bytes(w, buf, base, k) ==
    IF features.vectored_io THEN write_vectored(w, buf, base, k) ELSE write_all(w, buf, base)

\* how many units the socket may take of each buffer
SentLens(bufs) ==
    { ks \in [1..Len(bufs) -> UNION {0..Len(bufs[i]) : i \in 1..Len(bufs)}] :
        \A i \in 1..Len(bufs) :
            IF features.vectored_io /\ Len(bufs[i]) > 0
            THEN ks[i] \in 1..Len(bufs[i])
            ELSE ks[i] = Len(bufs[i]) }

RECURSIVE SendFrom(_, _, _, _, _)
SendFrom(w, bufs, ks, i, base) ==
    IF i > Len(bufs) THEN w
    ELSE SendFrom(send_bytes(w, bufs[i], base, ks[i]), bufs, ks, i + 1, base + Len(bufs[i]))

Send(out) ==
    /\ writes' = out.bufs
    /\ \E ks \in SentLens(out.bufs) : wire' = SendFrom(<<>>, out.bufs, ks, 1, 0)
    /\ emit_pc' = IF out.ok THEN "sent" ELSE "failed"
    /\ response' = [response EXCEPT !.status = IF UseFile(response) THEN OK ELSE @]

\* response.responser().await
Responser ==
    /\ HoldsStream(response) /\ emit_pc = "open"
    /\ response.writer # "ArenaWriter"
    /\ Send(responser(response))
    /\ UNCHANGED <<NotEmit, features, file>>

\* response.responser_arena().await
ResponserArena ==
    /\ HoldsStream(response) /\ emit_pc = "open"
    /\ response.writer = "ArenaWriter"
    /\ Send(responser_arena(response))
    /\ UNCHANGED <<NotEmit, features, file>>

EmitNext == SetStatus \/ SetBody \/ SetBytes \/ ResponseFile \/ Responser \/ ResponserArena

ConnNext == ReaderNext \/ EmitNext

\* one connection: a peer that sends a POST with a five-byte body, read with
\* a retry budget of one, in any build
ConnInit ==
    /\ ReaderStart
    /\ stream = [hdr |-> PostD5, body |-> Hello, extra |-> <<>>, cl |-> 5]
    /\ read_max_retry = 1
    /\ read_buffer_size = 4096
    /\ build = "none" /\ request = NoRequest /\ ScanIdle /\ FrameIdle /\ StoreIdle
    /\ features \in Features
    /\ response = NoResponse
    /\ file = NoFile
    /\ writes = <<>>
    /\ wire = <<>>
    /\ emit_pc = "open"
    /\ SplitIdle

SpecConn == ConnInit /\ [][ConnNext]_vars

-----------------------------------------------------------------------------
(* Claims about the response, under SpecConn *)

\* the values of the content-length lines the peer received
ContentLengths == {wire[i].value : i \in {j \in 1..Len(wire) : wire[j].unit = "cl"}}

\* how many body bytes the peer received
BodyBytesWritten == Cardinality({i \in 1..Len(wire) : wire[i].unit = "body"})

\* the response carries in-memory bytes, a body string or arena response
\* data, or a file
CarriesPayload == response.bytes > 0 \/ response.body > 0 \/ UseFile(response)

\* C25: every response emitted by responser or responser_arena that carries
\* a payload includes a content-length header whose value is the number of
\* body bytes written after the blank line.
C25_PayloadHasContentLength ==
    (emit_pc = "sent" /\ CarriesPayload) => ContentLengths = {BodyBytesWritten}

\* the status lines the peer received
StatusLines == {wire[i].value : i \in {j \in 1..Len(wire) : wire[j].unit = "status"}}

\* C26, as stated: emitting the response parse_request produced yields a
\* 400-class status line unless the handler has set another status.
C26_DefaultStatusIs4xx ==
    \A st \in StatusLines :
        IF response.set_status = NONE THEN st \in 400..499 ELSE st = response.set_status

\* C26, amended: emitting the response parse_request produced yields a
\* 400-class status line unless the handler has set another status or, in a
\* build with the response_file feature, has named a file with response_file;
\* for a file the status line is 200 whatever status was set.
C26_DefaultStatusIs4xxUnlessFile ==
    \A st \in StatusLines :
        IF UseFile(response) THEN st = OK
        ELSE IF response.set_status = NONE THEN st \in 400..499
        ELSE st = response.set_status

\* a response the handler left untouched went out as 400, or a file went out
\* as 200 over a status the handler had set to something else
C26_Witness ==
    /\ emit_pc = "sent" /\ pc = "done"
    /\ \/ ~response.use_file /\ response.set_status = NONE /\ StatusLines = {BAD_REQUEST}
       \/ UseFile(response) /\ response.set_status \notin {NONE, OK} /\ StatusLines = {OK}

\* all the units handed to the socket, in the order of the writes
RECURSIVE Concat(_)
Concat(bufs) == IF bufs = <<>> THEN <<>> ELSE Head(bufs) \o Concat(Tail(bufs))

C38_SuccessMeansAllWritten ==
    emit_pc = "sent" => Len(wire) = Len(Concat(writes))

-----------------------------------------------------------------------------
(* split_bytes and split_bytes_arena *)

MaxSplitLen == 5

\* "--\r\n", the end of a multipart body
Terminator == <<45, 45, CR, LF>>

Split(pushed) == [ran |-> TRUE, panic |-> FALSE, chunks |-> pushed]

SplitPanic == [ran |-> TRUE, panic |-> TRUE, chunks |-> <<>>]

\* the last chunk: pushed unless it is empty or the terminator
PushLast(pushed, last) ==
    IF last # Terminator /\ Len(last) > 0 THEN Append(pushed, last) ELSE pushed

\* SplitBytes::split_bytes from index i on; self[start..i] panics when start > i
RECURSIVE split_bytes_from(_, _, _, _, _)
split_bytes_from(data, delim, i, start, pushed) ==
    IF i >= Len(data) THEN Split(PushLast(pushed, Slice(data, start, Len(data))))
    ELSE IF StartsWithAt(data, delim, i)
    THEN IF start > i THEN SplitPanic
         ELSE split_bytes_from(data, delim, i + 1, i + Len(delim),
                               IF i - start > 0 THEN Append(pushed, Slice(data, start, i))
                               ELSE pushed)
    ELSE split_bytes_from(data, delim, i + 1, start, pushed)

split_bytes(data, delim) == split_bytes_from(data, delim, 0, 0, <<>>)

\* SplitBytesArena::split_bytes_arena from index i on
RECURSIVE split_bytes_arena_from(_, _, _, _, _)
split_bytes_arena_from(data, delim, i, start, pushed) ==
    IF i >= Len(data)
    THEN Split(IF start < Len(data) THEN PushLast(pushed, Slice(data, start, Len(data)))
               ELSE pushed)
    ELSE IF i + Len(delim) <= Len(data) /\ Slice(data, i, i + Len(delim)) = delim
    THEN split_bytes_arena_from(data, delim, i + 1, i + Len(delim),
                                IF start < i THEN Append(pushed, Slice(data, start, i))
                                ELSE pushed)
    ELSE split_bytes_arena_from(data, delim, i + 1, start, pushed)

split_bytes_arena(data, delim) == split_bytes_arena_from(data, delim, 0, 0, <<>>)

NotSplit == <<readerVars, build, scanVars, request, frameVars, poolVars, cacheVars,
              globalVars, emitVars>>

\* data.split_bytes(&delimiter)
SplitBytes ==
    /\ Len(delimiter) > 0 /\ ~chunks.ran
    /\ chunks' = split_bytes(split_data, delimiter)
    /\ UNCHANGED <<NotSplit, split_data, delimiter, chunks_arena>>

\* data.split_bytes_arena(&delimiter)
SplitBytesArena ==
    /\ Len(delimiter) > 0 /\ ~chunks_arena.ran
    /\ chunks_arena' = split_bytes_arena(split_data, delimiter)
    /\ UNCHANGED <<NotSplit, split_data, delimiter, chunks>>

SplitNext == SplitBytes \/ SplitBytesArena

\* 'a', 'x', 'y'
SplitAlphabet == {97, 120, 121}

\* "x", "xx" (which overlaps itself) and "xy"
Delimiters == {<<120>>, <<120, 120>>, <<120, 121>>}

SplitInit ==
    /\ ReaderIdle /\ build = "none" /\ request = NoRequest /\ ScanIdle /\ FrameIdle
    /\ StoreIdle /\ EmitIdle
    /\ chunks = NoChunks
    /\ chunks_arena = NoChunks
    /\ delimiter \in Delimiters
    /\ \E n \in 0..MaxSplitLen : \E text \in [1..n -> SplitAlphabet] :
           split_data \in {text, text \o Terminator}

SpecSplit == SplitInit /\ [][SplitNext]_vars

\* the non-empty pieces of a sequence of pieces
RECURSIVE NonEmpty(_)
NonEmpty(pieces) ==
    IF pieces = <<>> THEN <<>>
    ELSE (IF Head(pieces) = <<>> THEN <<>> ELSE <<Head(pieces)>>) \o NonEmpty(Tail(pieces))

\* the segments between successive delimiter occurrences, taken left to right,
\* without a final segment "--\r\n" and without the empty ones
Segments(data, delim) ==
    LET pieces == split(data, delim)
        kept == IF pieces[Len(pieces)] = Terminator
                THEN SubSeq(pieces, 1, Len(pieces) - 1) ELSE pieces
    IN  NonEmpty(kept)

\* C33: for every input and every non-empty delimiter split_bytes and
\* split_bytes_arena return equal chunk sequences, the non-empty segments
\* between successive delimiter occurrences in order, without a final segment
\* "--\r\n", also when delimiter occurrences overlap or are adjacent, and
\* neither function faults.
C33_SplittersAgree ==
    /\ ~chunks.panic /\ ~chunks_arena.panic
    /\ chunks.ran => chunks.chunks = Segments(split_data, delimiter)
    /\ chunks_arena.ran => chunks_arena.chunks = Segments(split_data, delimiter)
    /\ (chunks.ran /\ chunks_arena.ran) => chunks.chunks = chunks_arena.chunks

=============================================================================
